---- MODULE Spec2Model ----
(***************************************************************************)
(* Sentinel Gate: the policy decision point (PDP).                         *)
(*                                                                         *)
(* The module models the policy evaluation engine                          *)
(* (services/policyEvaluator.ts, custom-condition version) together with   *)
(* the operations registered for the json-logic version, and the policy    *)
(* store the engine loads its list from.                                   *)
(*                                                                         *)
(* JavaScript strings are sequences of one-character strings, so that      *)
(* startsWith, slice, split and concatenation are computed, not assumed.   *)
(* JavaScript values are tagged records; objects are records of fields     *)
(* whose names are spelled out by the table Spell.                         *)
(***************************************************************************)
EXTENDS Integers, Sequences, FiniteSets, TLC

VARIABLES store, policies, req, resp, cond, condResult, log, auditFails,
          calls, table, user, options

vars ==
    <<store, policies, req, resp, cond, condResult, log, auditFails, calls, table, user,
      options>>

(***************************************************************************)
(* Bounds of the model.                                                    *)
(***************************************************************************)
MaxPolicies == 2
MaxCalls == 2

(***************************************************************************)
(* JavaScript values.                                                      *)
(***************************************************************************)
Undefined == [t |-> "undefined"]
Null == [t |-> "null"]
Str(s) == [t |-> "string", s |-> s]
Num(n) == [t |-> "number", n |-> n]
Bool(b) == [t |-> "boolean", b |-> b]
Arr(items) == [t |-> "array", items |-> items]
Obj(f) == [t |-> "object", f |-> f]
Fn == [t |-> "function"]

\* if (v): JavaScript truthiness
Truthy(v) ==
    CASE v.t = "undefined" -> FALSE
      [] v.t = "null" -> FALSE
      [] v.t = "string" -> v.s # <<>>
      [] v.t = "number" -> v.n # 0
      [] v.t = "boolean" -> v.b
      [] OTHER -> TRUE

(***************************************************************************)
(* The strings of the model, spelled character by character.               *)
(***************************************************************************)
Spell ==
    [subject |-> <<"s","u","b","j","e","c","t">>,
     action |-> <<"a","c","t","i","o","n">>,
     resource |-> <<"r","e","s","o","u","r","c","e">>,
     sub |-> <<"s","u","b">>,
     roles |-> <<"r","o","l","e","s">>,
     uaIds |-> <<"u","a","I","d","s">>,
     type |-> <<"t","y","p","e">>,
     status |-> <<"s","t","a","t","u","s">>,
     uaId |-> <<"u","a","I","d">>,
     ownerId |-> <<"o","w","n","e","r","I","d">>]

Star == <<"*">>
PadronEdit == <<"p","a","d","r","o","n",":","e","d","i","t">>
DocRead == <<"d","o","c",":","r","e","a","d">>
DocStar == <<"d","o","c",":","*">>
Doc == <<"d","o","c">>
Admin == <<"a","d","m","i","n">>
Ua == <<"u","a">>
Operaciones == <<"o","p","e","r","a","c","i","o","n","e","s">>
Open == <<"O","P","E","N">>
Closed == <<"C","L","O","S","E","D">>
FCEyN == <<"F","C","E","y","N">>
U1 == <<"u","1">>
U2 == <<"u","2">>
Padron == <<"p","a","d","r","o","n">>

\* "${" + a.b + "}": a path reference as the policies write it
Ref(path) == <<"$", "{">> \o path \o <<"}">>
Dot(a, b) == a \o <<".">> \o b

(***************************************************************************)
(* String operations.                                                      *)
(***************************************************************************)
\* path.startsWith(prefix)
StartsWith(s, prefix) ==
    /\ Len(s) >= Len(prefix)
    /\ SubSeq(s, 1, Len(prefix)) = prefix

\* path.slice(2, -1)
Slice2Minus1(s) == SubSeq(s, 3, Len(s) - 1)

\* The segments of a dot-separated path (lodash stringToPath on strings
\* without brackets): "a.b" -> <<"a","b">>, "a." -> <<"a","">>.
RECURSIVE SplitDots(_, _, _)
SplitDots(s, i, acc) ==
    IF i > Len(s) THEN <<acc>>
    ELSE IF s[i] = "." THEN <<acc>> \o SplitDots(s, i + 1, <<>>)
    ELSE SplitDots(s, i + 1, Append(acc, s[i]))

StringToPath(s) == SplitDots(s, 1, <<>>)

(***************************************************************************)
(* lodash get(ctx, path): object-field traversal; a missing segment, or a  *)
(* segment looked up in a value that is not an object, gives undefined.    *)
(* The result carries the place it was found at, which is the identity of  *)
(* an array or object under ===.                                           *)
(***************************************************************************)
HasField(v, seg) ==
    /\ v.t = "object"
    /\ \E n \in DOMAIN v.f : Spell[n] = seg

FieldAt(v, seg) == v.f[CHOOSE n \in DOMAIN v.f : Spell[n] = seg]

RECURSIVE BaseGet(_, _, _)
BaseGet(v, segs, i) ==
    IF i > Len(segs) THEN v
    ELSE IF HasField(v, segs[i]) THEN BaseGet(FieldAt(v, segs[i]), segs, i + 1)
    ELSE Undefined

get(ctx, path) ==
    LET segs == StringToPath(path)
        v == BaseGet(ctx, segs, 1)
    IN  [v |-> v, at |-> IF v.t = "undefined" THEN <<>> ELSE segs]

Literal(v) == [v |-> v, at |-> <<>>]

\* An absent value equals nothing
StrictEqDefined(a, b) ==
    /\ a.v.t # "undefined"
    /\ IF a.v.t \in {"array", "object"}
       THEN a.v.t = b.v.t /\ a.at = b.at
       ELSE a.v = b.v

\* a === b
StrictEq(a, b) ==
    IF a.v.t \in {"array", "object"}
    THEN a.v.t = b.v.t /\ a.at = b.at
    ELSE a.v = b.v

\* arr.includes(val), for arrays of primitive values
ArrayIncludes(arr, val) ==
    /\ val.v.t \notin {"array", "object"}
    /\ \E i \in 1..Len(arr.v.items) : arr.v.items[i] = val.v

(***************************************************************************)
(* Property reads and outcomes.  A function of the engine returns a value  *)
(* or raises a TypeError; the condition evaluator's outcome is one of      *)
(* "true", "false", "TypeError".                                           *)
(***************************************************************************)
B(b) == IF b THEN "true" ELSE "false"

Nullish(v) == v.t \in {"undefined", "null"}

\* v.name, for v neither null nor undefined.  Strings and arrays inherit a
\* method named includes from their prototype.
Prop(v, name) ==
    CASE v.t = "object" -> IF name \in DOMAIN v.f THEN v.f[name] ELSE Undefined
      [] v.t \in {"string", "array"} -> IF name = "includes" THEN Fn ELSE Undefined
      [] v.t \in {"number", "boolean", "function"} -> Undefined

\* v?.name
OptProp(v, name) == IF Nullish(v) THEN Undefined ELSE Prop(v, name)

(***************************************************************************)
(* The condition evaluator.                                                *)
(***************************************************************************)
\* resolvePath(path, ctx) raises when path has no startsWith method
resolvePathThrows(path) == path.t # "string"

\* The closing brace is left in the path
resolvePathSlice2(path, ctx) ==
    IF ~StartsWith(path.s, <<"$", "{">>) THEN Literal(path)
    ELSE get(ctx, SubSeq(path.s, 3, Len(path.s)))

resolvePath(path, ctx) ==
    IF ~StartsWith(path.s, <<"$", "{">>) THEN Literal(path)
    ELSE get(ctx, Slice2Minus1(path.s))

\* list.map((v) => resolvePath(v, ctx)) raises when list has no map method
\* or when resolvePath raises on one of its elements
MapThrows(list) ==
    \/ list.t # "array"
    \/ \E i \in 1..Len(list.items) : resolvePathThrows(list.items[i])

\* const [a, b] = list.map(...): the i-th resolved operand, undefined when
\* the list is shorter
Operand(list, i, ctx) ==
    IF i <= Len(list.items) THEN resolvePath(list.items[i], ctx)
    ELSE Literal(Undefined)

IsArray(x) == x.v.t = "array"

\* const [a, b] = cond.eq.map(...); return a === b;
evalEq(list, ctx) ==
    IF MapThrows(list) THEN "TypeError"
    ELSE B(StrictEq(Operand(list, 1, ctx), Operand(list, 2, ctx)))

\* const [a, b] = cond.ne.map(...); return a !== b;
evalNe(list, ctx) ==
    IF MapThrows(list) THEN "TypeError"
    ELSE B(~StrictEq(Operand(list, 1, ctx), Operand(list, 2, ctx)))

\* const [arr, val] = cond.includes.map(...);
\* return Array.isArray(arr) ? arr.includes(val) : false;
evalIncludes(list, ctx) ==
    IF MapThrows(list) THEN "TypeError"
    ELSE LET arr == Operand(list, 1, ctx)
             val == Operand(list, 2, ctx)
         IN  IF IsArray(arr) THEN B(ArrayIncludes(arr, val)) ELSE "false"

\* The operands taken in the order of includes
evalInOperandsSwapped(list, ctx) ==
    IF MapThrows(list) THEN "TypeError"
    ELSE LET arr == Operand(list, 1, ctx)
             val == Operand(list, 2, ctx)
         IN  IF IsArray(arr) THEN B(ArrayIncludes(arr, val)) ELSE "false"

\* const [val, arr] = cond.in.map(...);
\* return Array.isArray(arr) ? arr.includes(val) : false;
evalIn(list, ctx) ==
    IF MapThrows(list) THEN "TypeError"
    ELSE LET val == Operand(list, 1, ctx)
             arr == Operand(list, 2, ctx)
         IN  IF IsArray(arr) THEN B(ArrayIncludes(arr, val)) ELSE "false"

\* A default of true for the forms the evaluator does not know
evaluateConditionDefaultTrue(c, ctx) ==
    IF Nullish(c) THEN "TypeError"
    ELSE IF Truthy(Prop(c, "eq")) THEN evalEq(Prop(c, "eq"), ctx)
    ELSE IF Truthy(Prop(c, "ne")) THEN evalNe(Prop(c, "ne"), ctx)
    ELSE IF Truthy(Prop(c, "includes")) THEN evalIncludes(Prop(c, "includes"), ctx)
    ELSE IF Truthy(Prop(c, "in")) THEN evalIn(Prop(c, "in"), ctx)
    ELSE "true"

evaluateCondition(c, ctx) ==
    IF Nullish(c) THEN "TypeError"
    ELSE IF Truthy(Prop(c, "eq")) THEN evalEq(Prop(c, "eq"), ctx)
    ELSE IF Truthy(Prop(c, "ne")) THEN evalNe(Prop(c, "ne"), ctx)
    ELSE IF Truthy(Prop(c, "includes")) THEN evalIncludes(Prop(c, "includes"), ctx)
    ELSE IF Truthy(Prop(c, "in")) THEN evalIn(Prop(c, "in"), ctx)
    ELSE "false"

\* The operations the json-logic version registers: operands arrive resolved.
jsonLogicIn(val, arr) == IsArray(arr) /\ ArrayIncludes(arr, val)

jsonLogicIncludes(arr, val) == IsArray(arr) /\ ArrayIncludes(arr, val)

(***************************************************************************)
(* The policy evaluation engine.  Each filter of the loop body passes,     *)
(* fails (continue) or raises.                                             *)
(***************************************************************************)
\* arr.includes(x) on an array value
Includes(arr, x) == ArrayIncludes(Literal(arr), Literal(x))

\* An action of the policy matches when it is a prefix of the request's
matchActionPrefix(policy, r) ==
    IF Nullish(policy) THEN "TypeError"
    ELSE LET actions == Prop(policy, "actions")
         IN  CASE Nullish(actions) -> "TypeError"
               [] actions.t = "array" ->
                    IF \E i \in 1..Len(actions.items) :
                           \/ actions.items[i] = Str(Star)
                           \/ StartsWith(Prop(r, "action").s, actions.items[i].s)
                    THEN "pass" ELSE "fail"

\* policy.actions.includes("*") || policy.actions.includes(req.action)
matchAction(policy, r) ==
    IF Nullish(policy) THEN "TypeError"
    ELSE LET actions == Prop(policy, "actions")
         IN  CASE Nullish(actions) -> "TypeError"
               [] actions.t = "array" ->
                    IF Includes(actions, Str(Star)) \/ Includes(actions, Prop(r, "action"))
                    THEN "pass" ELSE "fail"

\* The subject must hold every role of anyRole
hasRoleEvery(anyRole, r) ==
    \A i \in 1..Len(anyRole.items) :
        Includes(Prop(Prop(r, "subject"), "roles"), anyRole.items[i])

\* policy.rbac.anyRole.some((r) => req.subject.roles.includes(r))
hasRole(anyRole, r) ==
    \E i \in 1..Len(anyRole.items) :
        Includes(Prop(Prop(r, "subject"), "roles"), anyRole.items[i])

\* A policy without anyRole is skipped
rbacFilterRequired(policy, r) ==
    LET anyRole == OptProp(Prop(policy, "rbac"), "anyRole")
    IN  IF ~Truthy(anyRole) THEN "fail"
        ELSE IF anyRole.t # "array" THEN "TypeError"
        ELSE IF hasRole(anyRole, r) THEN "pass" ELSE "fail"

\* An empty anyRole is no restriction
rbacFilterEmptyIsOpen(policy, r) ==
    LET anyRole == OptProp(Prop(policy, "rbac"), "anyRole")
    IN  IF ~Truthy(anyRole) THEN "pass"
        ELSE IF anyRole.t # "array" THEN "TypeError"
        ELSE IF anyRole.items = <<>> \/ hasRole(anyRole, r) THEN "pass" ELSE "fail"

\* if (policy.rbac?.anyRole) { ...; if (!hasRole) continue; }
rbacFilter(policy, r) ==
    LET anyRole == OptProp(Prop(policy, "rbac"), "anyRole")
    IN  IF ~Truthy(anyRole) THEN "pass"
        ELSE IF anyRole.t # "array" THEN "TypeError"
        ELSE IF hasRole(anyRole, r) THEN "pass" ELSE "fail"

\* list.every((c) => evaluateCondition(c, ctx)), from the i-th element on
RECURSIVE every(_, _, _)
every(items, ctx, i) ==
    IF i > Len(items) THEN "true"
    ELSE LET o == evaluateCondition(items[i], ctx)
         IN  IF o = "true" THEN every(items, ctx, i + 1) ELSE o

\* some() of the empty list is true
RECURSIVE someVacuous(_, _, _)
someVacuous(items, ctx, i) ==
    IF i > Len(items) THEN (IF items = <<>> THEN "true" ELSE "false")
    ELSE LET o == evaluateCondition(items[i], ctx)
         IN  IF o = "false" THEN someVacuous(items, ctx, i + 1) ELSE o

\* list.some((c) => evaluateCondition(c, ctx)), from the i-th element on
RECURSIVE some(_, _, _)
some(items, ctx, i) ==
    IF i > Len(items) THEN "false"
    ELSE LET o == evaluateCondition(items[i], ctx)
         IN  IF o = "false" THEN some(items, ctx, i + 1) ELSE o

\* if (!allMatch) continue; and if (!anyMatch) continue;
filterOutcome(o) ==
    CASE o = "true" -> "pass" [] o = "false" -> "fail" [] OTHER -> o

\* The all list is not consulted
allFilterSkipped(policy, ctx) == "pass"

\* if (policy.abac?.all) { const allMatch = ...; if (!allMatch) continue; }
allFilter(policy, ctx) ==
    LET all == OptProp(Prop(policy, "abac"), "all")
    IN  IF ~Truthy(all) THEN "pass"
        ELSE IF all.t # "array" THEN "TypeError"
        ELSE filterOutcome(every(all.items, ctx, 1))

\* The any list is consulted only when there is no all list
anyFilterWithoutAll(policy, ctx) ==
    LET any == OptProp(Prop(policy, "abac"), "any")
    IN  IF Truthy(OptProp(Prop(policy, "abac"), "all")) \/ ~Truthy(any) THEN "pass"
        ELSE IF any.t # "array" THEN "TypeError"
        ELSE filterOutcome(some(any.items, ctx, 1))

\* if (policy.abac?.any) { const anyMatch = ...; if (!anyMatch) continue; }
anyFilter(policy, ctx) ==
    LET any == OptProp(Prop(policy, "abac"), "any")
    IN  IF ~Truthy(any) THEN "pass"
        ELSE IF any.t # "array" THEN "TypeError"
        ELSE filterOutcome(some(any.items, ctx, 1))

\* A filter that fails ends the iteration (continue), one that raises ends
\* the call, one that passes lets the iteration go on with the rest
afterFilter(o, rest) ==
    IF o = "pass" THEN rest ELSE IF o = "fail" THEN "continue" ELSE o

\* One iteration of the loop: "match" (the return statement is reached),
\* "continue", or "TypeError".
policyOutcome(policy, r) ==
    afterFilter(matchAction(policy, r),
        afterFilter(rbacFilter(policy, r),
            afterFilter(allFilter(policy, r),
                afterFilter(anyFilter(policy, r), "match"))))

Matched == <<"M","a","t","c","h","e","d"," ">>
NoMatchingPolicy ==
    <<"N","o"," ","m","a","t","c","h","i","n","g"," ","p","o","l","i","c","y">>

\* return { allow: true, reason: `Matched ${policy.description}`, matchedPolicyId: policy.id }
AllowResponse(policy) ==
    [outcome |-> "return", allow |-> TRUE,
     reason |-> Matched \o Prop(policy, "description").s,
     matchedPolicyId |-> Prop(policy, "id").s]

\* A deny that names a policy
DenyResponseWithPolicyId ==
    [outcome |-> "return", allow |-> FALSE, reason |-> NoMatchingPolicy,
     matchedPolicyId |-> <<>>]

\* return { allow: false, reason: "No matching policy" }
DenyResponse ==
    [outcome |-> "return", allow |-> FALSE, reason |-> NoMatchingPolicy]

Raised == [outcome |-> "throw"]

\* The last matching policy wins instead of the first
RECURSIVE evaluateFromLastMatch(_, _, _)
evaluateFromLastMatch(list, r, i) ==
    IF i > Len(list) THEN DenyResponse
    ELSE LET rest == evaluateFromLastMatch(list, r, i + 1)
             o == policyOutcome(list[i], r)
         IN  CASE o = "TypeError" -> Raised
               [] rest.outcome = "return" /\ rest.allow -> rest
               [] o = "match" -> AllowResponse(list[i])
               [] OTHER -> rest

\* for (const policy of policies) { ... }, from the i-th policy on
RECURSIVE evaluateFrom(_, _, _)
evaluateFrom(list, r, i) ==
    IF i > Len(list) THEN DenyResponse
    ELSE LET o == policyOutcome(list[i], r)
         IN  CASE o = "match" -> AllowResponse(list[i])
               [] o = "continue" -> evaluateFrom(list, r, i + 1)
               [] OTHER -> Raised

evaluatePolicies(list, r) == evaluateFrom(list, r, 1)

(***************************************************************************)
(* What the engine logs.  A log record is a record of JavaScript values    *)
(* with its event name and level; the timestamp field, a reading of the    *)
(* clock, is left out.                                                     *)
(***************************************************************************)
AuthorizationDecision == "authorization.decision"

\* logger.info({event, timestamp, user, action, resourceType, allow: true,
\*              policyId: policy.id, reason: policy.description})
AllowAuditReasonMatched(policy, r) ==
    [event |-> AuthorizationDecision, level |-> "info",
     user |-> Prop(Prop(r, "subject"), "sub"),
     action |-> Prop(r, "action"),
     resourceType |-> Prop(Prop(r, "resource"), "type"),
     allow |-> TRUE,
     policyId |-> Prop(policy, "id"),
     reason |-> Str(Matched \o Prop(policy, "description").s)]

AllowAudit(policy, r) ==
    [event |-> AuthorizationDecision, level |-> "info",
     user |-> Prop(Prop(r, "subject"), "sub"),
     action |-> Prop(r, "action"),
     resourceType |-> Prop(Prop(r, "resource"), "type"),
     allow |-> TRUE,
     policyId |-> Prop(policy, "id"),
     reason |-> Prop(policy, "description")]

\* logger.warn({event, timestamp, user, action, resourceType, allow: false,
\*              reason: "No matching policy"})
DenyAudit(r) ==
    [event |-> AuthorizationDecision, level |-> "warn",
     user |-> Prop(Prop(r, "subject"), "sub"),
     action |-> Prop(r, "action"),
     resourceType |-> Prop(Prop(r, "resource"), "type"),
     allow |-> FALSE,
     reason |-> Str(NoMatchingPolicy)]

\* The index of the policy the loop returns at, 0 when the loop ends
\* without a match, -1 when an iteration raises
RECURSIVE matchIndex(_, _, _)
matchIndex(list, r, i) ==
    IF i > Len(list) THEN 0
    ELSE LET o == policyOutcome(list[i], r)
         IN  CASE o = "match" -> i
               [] o = "continue" -> matchIndex(list, r, i + 1)
               [] OTHER -> -1

\* The logger calls evaluatePolicies reaches: logger.info before the return
\* of the loop, logger.warn before the final return, none when it raises
auditAt(list, r, k) ==
    CASE k > 0 -> <<AllowAudit(list[k], r)>>
      [] k = 0 -> <<DenyAudit(r)>>
      [] OTHER -> <<>>

auditCalls(list, r) == auditAt(list, r, matchIndex(list, r, 1))

\* One call of evaluatePolicies on a loaded list: what it returns and the
\* records it logs.  A logger call that raises ends the call: it is made
\* outside any try block.
callResult(fails, emitted, response) ==
    IF fails /\ emitted # <<>>
    THEN [resp |-> Raised, log |-> <<>>]
    ELSE [resp |-> response, log |-> emitted]

evaluateCall(list, r, fails) ==
    callResult(fails, auditCalls(list, r), evaluatePolicies(list, r))

\* logger.info({event: "policy.load", count: json.length, path: DATA_PATH})
PolicyLoad(list) == [event |-> "policy.load", level |-> "info", count |-> Len(list)]

\* logger.error({event: "policy.load.error", err})
PolicyLoadError == [event |-> "policy.load.error", level |-> "error"]

(***************************************************************************)
(* Inputs: decision requests.                                              *)
(***************************************************************************)
\* An object with the fields of fs that are present (not undefined)
Field(name, v) ==
    IF v.t = "undefined" THEN [x \in {} |-> Undefined] ELSE [x \in {name} |-> v]

StrArr(ss) == Arr([i \in 1..Len(ss) |-> Str(ss[i])])

RoleLists == {<<>>, <<Admin>>, <<Ua>>}
RequestActions == {PadronEdit, DocRead}
Statuses == {Undefined, Str(Open), Str(Closed)}
UaIdLists == {Undefined, StrArr(<<FCEyN>>)}
OwnerIds == {Str(U1), Str(U2)}

DecisionRequest(roles, action, status, uaIds, ownerId) ==
    Obj([subject |-> Obj([sub |-> Str(U1), roles |-> StrArr(roles)]
                         @@ Field("uaIds", uaIds)),
         action |-> Str(action),
         resource |-> Obj([type |-> Str(Padron), uaId |-> Str(FCEyN), ownerId |-> ownerId]
                          @@ Field("status", status))])

Requests ==
    {DecisionRequest(roles, action, status, uaIds, ownerId) :
        roles \in RoleLists, action \in RequestActions, status \in Statuses,
        uaIds \in UaIdLists, ownerId \in OwnerIds}

NoRequest == Undefined

(***************************************************************************)
(* Inputs: conditions.                                                     *)
(***************************************************************************)
PStatus == Ref(Dot(Spell.resource, Spell.status))
PUaId == Ref(Dot(Spell.resource, Spell.uaId))
POwnerId == Ref(Dot(Spell.resource, Spell.ownerId))
PUaIds == Ref(Dot(Spell.subject, Spell.uaIds))
PRoles == Ref(Dot(Spell.subject, Spell.roles))
PSub == Ref(Dot(Spell.subject, Spell.sub))
\* A path through context, which no request of the model carries
PContextIp == Ref(Dot(<<"c","o","n","t","e","x","t">>, <<"i","p">>))

\* The operand strings of the model: literals and path references
OperandStrings ==
    {Open, U1, FCEyN, PStatus, PUaId, POwnerId, PUaIds, PRoles, PSub, PContextIp}

PrimitiveForms == {"eq", "ne", "includes", "in"}

Primitive(form, a, b) == Obj([x \in {form} |-> StrArr(<<a, b>>)])

\* Conditions of the declared shape: one primitive form, two string operands
TypedConditions ==
    {Primitive(form, a, b) : form \in PrimitiveForms, a \in OperandStrings, b \in OperandStrings}

\* Condition values of any other shape
MalformedConditions ==
    {Null,
     Str(Open),
     Obj([x \in {} |-> Undefined]),
     Obj([gt |-> StrArr(<<PStatus, Open>>)]),
     Obj([eq |-> Str(Open)]),
     Obj([eq |-> Arr(<<>>)]),
     Obj([eq |-> StrArr(<<Open>>)]),
     Obj([ne |-> StrArr(<<Open>>)]),
     Obj([eq |-> Arr(<<Num(5), Num(5)>>)]),
     Obj([ne |-> Arr(<<Str(PStatus), Bool(TRUE)>>)]),
     Obj([includes |-> Arr(<<Str(PUaIds)>>)]),
     Obj([in |-> Arr(<<Str(FCEyN), StrArr(<<FCEyN>>)>>)])}

NoCondition == Undefined

(***************************************************************************)
(* Inputs: policies.                                                       *)
(***************************************************************************)
Policy(id, description, actions, rbac, abac) ==
    Obj([id |-> Str(id), description |-> Str(description), actions |-> StrArr(actions)]
        @@ Field("rbac", rbac) @@ Field("abac", abac))

AnyRole(roles) == Obj([anyRole |-> StrArr(roles)])
AbacAll(cs) == Obj([all |-> Arr(cs)])
AbacAny(cs) == Obj([any |-> Arr(cs)])
AbacAllAny(cs, ds) == Obj([all |-> Arr(cs), any |-> Arr(ds)])
EmptyObject == Obj([x \in {} |-> Undefined])

Id001 == <<"p","o","l","i","c","y","-","0","0","1">>
Id002 == <<"p","o","l","i","c","y","-","0","0","2">>
Description001 ==
    <<"U","A"," ","m","e","m","b","e","r","s"," ","c","a","n"," ","e","d","i","t"," ","p","a","d","r","o","n"," ","i","n"," ","O","P","E","N"," ","s","t","a","g","e">>
Description002 ==
    <<"A","d","m","i","n","s"," ","c","a","n"," ","d","o"," ","a","n","y","t","h","i","n","g">>
P(n) == <<"p", n>>
D(n) == <<"d", n>>

\* The two policies of src/services/policyEvaluator.ts
policy001 ==
    Policy(Id001, Description001, <<PadronEdit>>, AnyRole(<<Ua, Operaciones>>),
           AbacAll(<<Primitive("eq", PStatus, Open), Primitive("includes", PUaIds, PUaId)>>))

policy002 == Policy(Id002, Description002, <<Star>>, AnyRole(<<Admin>>), Undefined)

\* Policies of the declared shape: actions, optional rbac with optional
\* anyRole, optional abac with optional all and any lists of primitives
TypedPolicies ==
    {policy001,
     policy002,
     Policy(P("3"), D("3"), <<Star>>, Undefined, Undefined),
     Policy(P("4"), D("4"), <<DocStar, Doc>>, Undefined, Undefined),
     Policy(P("5"), D("5"), <<DocRead>>, EmptyObject,
            AbacAny(<<Primitive("eq", POwnerId, PSub), Primitive("eq", PStatus, Open)>>)),
     Policy(P("6"), D("6"), <<Star>>, AnyRole(<<>>), Undefined),
     Policy(P("7"), D("7"), <<Star>>, Undefined, AbacAny(<<>>)),
     Policy(P("8"), D("8"), <<DocRead>>, Undefined, AbacAll(<<>>)),
     Policy(P("9"), D("9"), <<DocRead, PadronEdit>>, Undefined,
            AbacAllAny(<<Primitive("ne", PStatus, Closed)>>,
                       <<Primitive("in", PUaId, PUaIds), Primitive("eq", POwnerId, PSub)>>)),
     Policy(P("a"), D("a"), <<PadronEdit>>, AnyRole(<<Admin, Ua>>),
            AbacAny(<<Primitive("includes", PUaIds, PUaId)>>))}

\* Policies of any other shape: an abac clause that is not a pair of lists
\* of primitives, no actions, an anyRole that is not a list
AnyShapePolicies ==
    {Policy(P("3"), D("3"), <<Star>>, Undefined, Undefined),
     Policy(P("b"), D("b"), <<Star>>, Undefined, Primitive("eq", U1, U2)),
     Policy(P("c"), D("c"), <<Star>>, Undefined, Primitive("eq", PStatus, Open)),
     Policy(P("d"), D("d"), <<Star>>, Undefined,
            AbacAll(<<AbacAny(<<Primitive("eq", PStatus, Open), Primitive("eq", POwnerId, PSub)>>),
                      Primitive("includes", PUaIds, PUaId)>>)),
     Policy(P("e"), D("e"), <<PadronEdit>>, Undefined,
            AbacAll(<<Obj([eq |-> Arr(<<Num(5), Num(5)>>)])>>)),
     Policy(P("f"), D("f"), <<DocRead>>, Undefined, AbacAny(<<Null>>)),
     Policy(P("g"), D("g"), <<Star>>, AnyRole(<<Admin>>),
            AbacAny(<<Obj([gt |-> StrArr(<<PStatus, Open>>)]), Obj([eq |-> Arr(<<>>)])>>)),
     Policy(P("h"), D("h"), <<DocRead>>, Undefined, EmptyObject),
     Obj([id |-> Str(P("i")), description |-> Str(D("i"))]),
     Policy(P("j"), D("j"), <<Star>>, Obj([anyRole |-> Str(Admin)]), Undefined)}

\* The ordered lists of at most MaxPolicies policies of a pool, ids unique
ListsOver(pool) ==
    UNION {{l \in [1..n -> pool] : \A i, j \in 1..n : i # j => l[i] # l[j]} :
              n \in 0..MaxPolicies}

\* No application is configured
NoOptions == [onUnauthorized |-> "none"]

NoResponse == [outcome |-> "none"]

\* The calls of evaluatePolicies in flight, each with its own locals
CallIds == 1..MaxCalls

NoCall == [pc |-> "idle"]

NoneInFlight == calls = [c \in CallIds |-> NoCall]

(***************************************************************************)
(* State and operations.                                                   *)
(*   store       the policy list in data/policies.json                     *)
(*   policies    the list the last evaluatePolicies call loaded            *)
(*   req, resp   the last decision request and what the call ended with    *)
(*   cond, condResult   the last condition evaluated on its own            *)
(***************************************************************************)
InitWith(pool) ==
    /\ store \in ListsOver(pool)
    /\ policies = <<>>
    /\ req = NoRequest
    /\ resp = NoResponse
    /\ cond = NoCondition
    /\ condResult = "none"
    /\ log = <<>>
    /\ auditFails = FALSE
    /\ NoneInFlight
    /\ table = <<>>
    /\ user = Undefined
    /\ options = NoOptions

Init == InitWith(TypedPolicies)

InitAnyShape == InitWith(AnyShapePolicies)

\* loadPolicies(): the stored list, or [] when reading or parsing fails
loadPolicies(readOk) == IF readOk THEN store ELSE <<>>

\* What loadPolicies logs
loadLog(readOk) == <<IF readOk THEN PolicyLoad(store) ELSE PolicyLoadError>>

\* No call is in progress: the record of the last call has been dropped
Idle == resp = NoResponse /\ condResult = "none"

\* evaluatePolicies(req): the list is loaded, the loop runs, the decision is
\* logged and returned.  A logger call that raises ends the call: it is
\* made outside any try block.
Decision ==
    /\ Idle
    /\ \E r \in Requests, readOk \in BOOLEAN :
        \E out \in {evaluateCall(loadPolicies(readOk), r, auditFails)} :
            /\ policies' = loadPolicies(readOk)
            /\ req' = r
            /\ resp' = out.resp
            /\ log' = loadLog(readOk) \o out.log
            /\ UNCHANGED <<store, cond, condResult, auditFails, calls, table, user, options>>

\* The call is over: its request, list and result are dropped
Reply ==
    /\ ~Idle
    /\ policies' = <<>>
    /\ req' = NoRequest
    /\ resp' = NoResponse
    /\ cond' = NoCondition
    /\ condResult' = "none"
    /\ log' = <<>>
    /\ user' = Undefined
    /\ UNCHANGED <<store, auditFails, calls, table, options>>

Next == Decision \/ Reply

Spec == Init /\ [][Next]_vars

SpecAnyShape == InitAnyShape /\ [][Next]_vars

\* The engine with a logger whose audit calls may raise
InitAudit ==
    /\ store \in ListsOver(TypedPolicies)
    /\ policies = <<>>
    /\ req = NoRequest
    /\ resp = NoResponse
    /\ cond = NoCondition
    /\ condResult = "none"
    /\ log = <<>>
    /\ auditFails \in BOOLEAN
    /\ NoneInFlight
    /\ table = <<>>
    /\ user = Undefined
    /\ options = NoOptions

SpecAudit == InitAudit /\ [][Next]_vars

\* The condition evaluator on its own: a request as the context, and the
\* conditions and operands applied to it
InitCond ==
    /\ store = <<>>
    /\ policies = <<>>
    /\ req = NoRequest
    /\ resp = NoResponse
    /\ cond = NoCondition
    /\ condResult = "none"
    /\ log = <<>>
    /\ auditFails = FALSE
    /\ NoneInFlight
    /\ table = <<>>
    /\ user = Undefined
    /\ options = NoOptions

EvaluateCondition ==
    /\ Idle
    /\ \E r \in Requests, c \in TypedConditions \cup MalformedConditions :
        /\ req' = r
        /\ cond' = c
        /\ condResult' = evaluateCondition(c, r)
        /\ UNCHANGED <<store, policies, resp, log, auditFails, calls, table, user, options>>

\* The values operands resolve to in a request
ResolvedOperands(ctx) == {resolvePath(Str(o), ctx) : o \in OperandStrings}

JsonLogicCall(op, a, b) == [t |-> "jsonLogic", op |-> op, args |-> <<a, b>>]

\* jsonLogic applies a registered operation to two resolved operands
ApplyOperation ==
    /\ Idle
    /\ \E r \in Requests, op \in {"in", "includes"} :
        \E a, b \in ResolvedOperands(r) :
            /\ req' = r
            /\ cond' = JsonLogicCall(op, a, b)
            /\ condResult' =
                   B(IF op = "in" THEN jsonLogicIn(a, b) ELSE jsonLogicIncludes(a, b))
            /\ UNCHANGED <<store, policies, resp, log, auditFails, calls, table, user, options>>

NextCond == EvaluateCondition \/ ApplyOperation \/ Reply

SpecCond == InitCond /\ [][NextCond]_vars

(***************************************************************************)
(* Properties.  The filters below state what the contract says of a        *)
(* policy and a request, with sets and quantifiers; the engine above       *)
(* computes its answer with loops.                                         *)
(***************************************************************************)
\* A decision has been made and not yet dropped
Called == resp # NoResponse

ItemSet(arr) == {arr.items[i] : i \in 1..Len(arr.items)}

Has(obj, name) == name \in DOMAIN obj.f

IdOf(p) == p.f.id.s

ActionsOf(p) == ItemSet(p.f.actions)

HasAnyRole(p) == Has(p, "rbac") /\ Has(p.f.rbac, "anyRole")

AnyRoleOf(p) == ItemSet(p.f.rbac.f.anyRole)

RolesOf(r) == ItemSet(r.f.subject.f.roles)

PassesAction(p, r) == Str(Star) \in ActionsOf(p) \/ r.f.action \in ActionsOf(p)

PassesRbac(p, r) == HasAnyRole(p) => AnyRoleOf(p) \cap RolesOf(r) # {}

Holds(c, r) == evaluateCondition(c, r) = "true"

PassesAbac(p, r) ==
    Has(p, "abac") =>
        /\ Has(p.f.abac, "all") => \A c \in ItemSet(p.f.abac.f.all) : Holds(c, r)
        /\ Has(p.f.abac, "any") => \E c \in ItemSet(p.f.abac.f.any) : Holds(c, r)

PassesAll(p, r) == PassesAction(p, r) /\ PassesRbac(p, r) /\ PassesAbac(p, r)

\* The positions of the loaded list whose policy passes all three filters
Passing == {i \in 1..Len(policies) : PassesAll(policies[i], req)}

Earliest(i) == i \in Passing /\ \A j \in Passing : i <= j

Swapped(i, j) == [policies EXCEPT ![i] = policies[j], ![j] = policies[i]]

\* C1 (first match wins): a decision allows exactly when some policy of the
\* list passes the action, RBAC and ABAC filters; it then names the earliest
\* such policy, with reason "Matched " + its description; and with the
\* earliest exchanged with a later passing policy, the decision names that
\* other policy.
FirstMatchWins ==
    Called =>
        /\ resp.outcome = "return"
        /\ resp.allow <=> Passing # {}
        /\ \A i \in Passing :
              Earliest(i) =>
                  /\ resp.matchedPolicyId = IdOf(policies[i])
                  /\ resp.reason = Matched \o policies[i].f.description.s
                  /\ \A j \in Passing \ {i} :
                        LET other == evaluatePolicies(Swapped(i, j), req)
                        IN  /\ other.matchedPolicyId = IdOf(policies[j])
                            /\ other.matchedPolicyId # resp.matchedPolicyId

\* C1 witness: two policies of the list pass all filters for the request
FirstMatchWinsWitness == Called /\ Cardinality(Passing) >= 2 /\ resp.allow

\* C4 (no-match default): when no policy of the list passes all three
\* filters, the empty list included, the call returns allow = false with
\* the reason "No matching policy" and no matchedPolicyId.
NoMatchDefault ==
    (Called /\ Passing = {}) =>
        /\ resp.outcome = "return"
        /\ resp.allow = FALSE
        /\ resp.reason = NoMatchingPolicy
        /\ DOMAIN resp = {"outcome", "allow", "reason"}

\* C4 witness: a non-empty list none of whose policies passes
NoMatchDefaultWitness ==
    Called /\ Len(policies) = MaxPolicies /\ Passing = {} /\ ~resp.allow

MatchedBy(p) == resp.outcome = "return" /\ resp.allow /\ resp.matchedPolicyId = IdOf(p)

\* C5 (RBAC gate): a policy with a non-empty anyRole passes the RBAC filter
\* exactly when the subject holds one of its roles; a policy without rbac,
\* or without rbac.anyRole, passes it for every subject; and a policy with
\* anyRole ["admin"] is never the match for a subject without "admin".
RbacGate ==
    Called =>
        \A i \in 1..Len(policies) :
            LET p == policies[i]
            IN  /\ (HasAnyRole(p) /\ AnyRoleOf(p) # {}) =>
                       /\ rbacFilter(p, req) = "pass" <=> AnyRoleOf(p) \cap RolesOf(req) # {}
                       /\ MatchedBy(p) => AnyRoleOf(p) \cap RolesOf(req) # {}
                /\ ~HasAnyRole(p) => rbacFilter(p, req) = "pass"
                /\ (HasAnyRole(p) /\ AnyRoleOf(p) = {Str(Admin)} /\ Str(Admin) \notin RolesOf(req))
                       => ~MatchedBy(p)

\* C5 witness: an admin-only policy whose action and ABAC filters pass, a
\* subject without the role, and a denial
RbacGateWitness ==
    /\ Called
    /\ ~resp.allow
    /\ \E i \in 1..Len(policies) :
          /\ HasAnyRole(policies[i])
          /\ AnyRoleOf(policies[i]) = {Str(Admin)}
          /\ Str(Admin) \notin RolesOf(req)
          /\ PassesAction(policies[i], req)
          /\ PassesAbac(policies[i], req)

\* C6 (action filter): a policy passes the action filter exactly when its
\* actions contain "*" or a string equal to the request's action; "doc:*"
\* and "doc" do not match the action "doc:read".
ActionFilterExact ==
    Called =>
        \A i \in 1..Len(policies) :
            LET p == policies[i]
            IN  /\ matchAction(p, req) = "pass" <=> PassesAction(p, req)
                /\ MatchedBy(p) => PassesAction(p, req)
                /\ (req.f.action = Str(DocRead) /\ ActionsOf(p) \subseteq {Str(DocStar), Str(Doc)})
                       => (matchAction(p, req) = "fail" /\ ~MatchedBy(p))

\* C6 witness: the action "doc:read" against a policy for "doc:*" and "doc"
ActionFilterExactWitness ==
    /\ Called
    /\ req.f.action = Str(DocRead)
    /\ ~resp.allow
    /\ \E i \in 1..Len(policies) : ActionsOf(policies[i]) = {Str(DocStar), Str(Doc)}

IsWildcard(p) == p.f.actions = StrArr(<<Star>>) /\ ~Has(p, "rbac") /\ ~Has(p, "abac")

\* C7 (wildcard universality): a policy with actions ["*"] and neither rbac
\* nor abac passes all filters for every request, and with it in the list
\* every request is allowed, by it or by an earlier policy.
WildcardUniversality ==
    Called =>
        \A i \in 1..Len(policies) :
            IsWildcard(policies[i]) =>
                /\ policyOutcome(policies[i], req) = "match"
                /\ resp.outcome = "return"
                /\ resp.allow
                /\ \E j \in 1..i : resp.matchedPolicyId = IdOf(policies[j])

\* C7 witness: the wildcard policy comes second and is the match
WildcardUniversalityWitness ==
    /\ Called
    /\ Len(policies) >= 2
    /\ IsWildcard(policies[2])
    /\ MatchedBy(policies[2])

\* C8 (aggregates): all is true exactly when every condition of its list is
\* true, so for the empty list; any is true exactly when some condition of
\* its list is true, so never for the empty list; a policy with abac
\* {any: []} is never the match and one with abac {all: []} matches whenever
\* its action and RBAC filters pass.
AggregateSemantics ==
    Called =>
        \A i \in 1..Len(policies) :
            LET p == policies[i]
            IN  Has(p, "abac") =>
                    /\ Has(p.f.abac, "all") =>
                           /\ every(p.f.abac.f.all.items, req, 1) = "true"
                                  <=> \A c \in ItemSet(p.f.abac.f.all) : Holds(c, req)
                           /\ allFilter(p, req) = "pass"
                                  <=> \A c \in ItemSet(p.f.abac.f.all) : Holds(c, req)
                    /\ Has(p.f.abac, "any") =>
                           /\ some(p.f.abac.f.any.items, req, 1) = "true"
                                  <=> \E c \in ItemSet(p.f.abac.f.any) : Holds(c, req)
                           /\ anyFilter(p, req) = "pass"
                                  <=> \E c \in ItemSet(p.f.abac.f.any) : Holds(c, req)
                    /\ p.f.abac = AbacAny(<<>>) => ~MatchedBy(p)
                    /\ (p.f.abac = AbacAll(<<>>) /\ PassesAction(p, req) /\ PassesRbac(p, req))
                           => policyOutcome(p, req) = "match"

\* C8 witness: a policy with abac {any: []} is passed over and one with
\* abac {all: []} is the match
AggregateSemanticsWitness ==
    /\ Called
    /\ Len(policies) >= 2
    /\ Has(policies[1], "abac")
    /\ policies[1].f.abac = AbacAny(<<>>)
    /\ PassesAction(policies[1], req)
    /\ Has(policies[2], "abac")
    /\ policies[2].f.abac = AbacAll(<<>>)
    /\ MatchedBy(policies[2])

(***************************************************************************)
(* Properties of the condition evaluator.                                  *)
(***************************************************************************)
\* A condition has been evaluated by evaluateCondition
Evaluated == condResult # "none" /\ cond.t # "jsonLogic"

\* A registered json-logic operation has been applied
Applied == condResult # "none" /\ cond.t = "jsonLogic"

FormOf(c) == CHOOSE k \in DOMAIN c.f : TRUE

OperandString(c, i) == c.f[FormOf(c)].items[i].s

Resolved(c, i) == resolvePath(c.f[FormOf(c)].items[i], req)

\* Strict equality of two resolved values: the same primitive value, or the
\* same array or object of the request
SameValue(x, y) ==
    /\ x.v.t = y.v.t
    /\ IF x.v.t \in {"array", "object"} THEN x.at = y.at ELSE x.v = y.v

Contains(arr, x) == arr.v.t = "array" /\ x.v \in ItemSet(arr.v)

ConditionEvaluatorNeverRaises ==
    Evaluated =>
        /\ condResult # "TypeError"
        /\ cond \in MalformedConditions => condResult = "false"

(***************************************************************************)
(* Properties of the ABAC filter on clauses of any shape.                  *)
(***************************************************************************)
\* A clause evaluates to true, as the contract reads a condition tree: all
\* is a conjunction, any a disjunction, anything else a primitive condition
RECURSIVE ClauseTrue(_, _)
ClauseTrue(c, r) ==
    IF c.t = "object" /\ (Has(c, "all") \/ Has(c, "any"))
    THEN /\ Has(c, "all") => \A x \in ItemSet(c.f.all) : ClauseTrue(x, r)
         /\ Has(c, "any") => \E x \in ItemSet(c.f.any) : ClauseTrue(x, r)
    ELSE evaluateCondition(c, r) = "true"

AbacPasses(p, r) == allFilter(p, r) = "pass" /\ anyFilter(p, r) = "pass"

\* C2 (ABAC filter), as claimed: a policy with an abac clause, primitive or
\* aggregate, passes the ABAC filter exactly when the clause evaluates to
\* true on the request, and no policy is the match while its clause is false.
AbacFilterSound ==
    Called =>
        \A i \in 1..Len(policies) :
            LET p == policies[i]
            IN  Has(p, "abac") =>
                    /\ AbacPasses(p, req) <=> ClauseTrue(p.f.abac, req)
                    /\ MatchedBy(p) => ClauseTrue(p.f.abac, req)

IsAggregate(c) == c.t = "object" /\ DOMAIN c.f # {} /\ DOMAIN c.f \subseteq {"all", "any"}

\* The aggregates among the conditions of the policy's all and any lists
NestedAggregates(p) ==
    IF ~Has(p, "abac") THEN {}
    ELSE UNION {{c \in ItemSet(p.f.abac.f[k]) : IsAggregate(c)} :
                   k \in DOMAIN p.f.abac.f \cap {"all", "any"}}

FieldsOf(o) ==
    CASE o = PStatus -> <<"resource", "status">>
      [] o = PUaId -> <<"resource", "uaId">>
      [] o = POwnerId -> <<"resource", "ownerId">>
      [] o = PUaIds -> <<"subject", "uaIds">>
      [] o = PRoles -> <<"subject", "roles">>
      [] o = PSub -> <<"subject", "sub">>
      [] o = PContextIp -> <<"context", "ip">>

PathReferences == {PStatus, PUaId, POwnerId, PUaIds, PRoles, PSub, PContextIp}

\* The value found by following field names from v, absent when a field is
\* missing on the way
RECURSIVE ValueAt(_, _)
ValueAt(v, names) ==
    IF names = <<>> THEN v
    ELSE IF v.t = "object" /\ Head(names) \in DOMAIN v.f
         THEN ValueAt(v.f[Head(names)], Tail(names))
         ELSE Undefined

Absent(x) == x.v.t = "undefined"

\* C11 (path resolution): a path reference resolves to the value at its path
\* in the request, any other string to itself, and a missing segment to an
\* absent value without an error.  So eq of resource.ownerId and subject.sub
\* is true exactly when the two are the same value, eq of a missing path
\* with a literal is false, and a missing value is in no array.
PathResolution ==
    (Evaluated /\ cond \in TypedConditions) =>
        LET form == FormOf(cond)
            a == Resolved(cond, 1)
            b == Resolved(cond, 2)
        IN  /\ condResult # "TypeError"
            /\ \A i \in 1..2 :
                   LET o == OperandString(cond, i)
                   IN  IF o \in PathReferences
                       THEN Resolved(cond, i).v = ValueAt(req, FieldsOf(o))
                       ELSE Resolved(cond, i).v = Str(o)
            /\ cond = Primitive("eq", POwnerId, PSub) =>
                   (condResult = "true" <=> req.f.resource.f.ownerId = req.f.subject.f.sub)
            /\ (form = "eq" /\ Absent(a) /\ OperandString(cond, 2) \notin PathReferences)
                   => condResult = "false"
            /\ (form = "eq" /\ Absent(b) /\ OperandString(cond, 1) \notin PathReferences)
                   => condResult = "false"
            /\ (form = "includes" /\ Absent(b)) => condResult = "false"
            /\ (form = "in" /\ Absent(a)) => condResult = "false"

\* C11 witness: the owner of the resource is the subject, and eq of the two
\* paths is true
PathResolutionWitness ==
    /\ Evaluated
    /\ cond = Primitive("eq", POwnerId, PSub)
    /\ req.f.resource.f.ownerId = req.f.subject.f.sub
    /\ condResult = "true"

(***************************************************************************)
(* Properties of the audit log.                                            *)
(***************************************************************************)
\* The audit records among what the call has logged
AuditRecords == {i \in 1..Len(log) : log[i].event = AuthorizationDecision}

\* C12 (one audit record per call), as claimed: a call of evaluatePolicies
\* emits exactly one authorization.decision record, whether it allows,
\* denies or ends abnormally.
OneAuditRecordPerCall == Called => Cardinality(AuditRecords) = 1

\* C13 (audit failure is dropped), as claimed: when the logger call that
\* emits the audit record raises, evaluatePolicies still returns the
\* response it returns with a working logger.
AuditFailureIsDropped ==
    (Called /\ auditFails) => resp = evaluatePolicies(policies, req)

\* C14 (the audit record agrees with the response): a call that returns has
\* logged an audit record, and every audit record of the call carries the
\* allow of the response, the subject's sub, the action and the resource
\* type of the request; on allow the id and the description of the matched
\* policy, on deny no policyId and the reason "No matching policy".
AuditAgreesWithResponse ==
    Called =>
        /\ resp.outcome = "return" => AuditRecords # {}
        /\ \A i \in AuditRecords :
               LET rec == log[i]
               IN  /\ resp.outcome = "return"
                   /\ rec.allow = resp.allow
                   /\ rec.user = req.f.subject.f.sub
                   /\ rec.action = req.f.action
                   /\ rec.resourceType = req.f.resource.f.type
                   /\ resp.allow =>
                          /\ "policyId" \in DOMAIN rec
                          /\ rec.policyId = Str(resp.matchedPolicyId)
                          /\ \E k \in 1..Len(policies) :
                                 /\ MatchedBy(policies[k])
                                 /\ rec.reason = policies[k].f.description
                   /\ ~resp.allow =>
                          /\ "policyId" \notin DOMAIN rec
                          /\ rec.reason = Str(NoMatchingPolicy)

\* C14 witness: the second policy of the list is the match and the call has
\* logged its audit record
AuditAgreesWithResponseWitness ==
    /\ Called
    /\ Len(policies) = 2
    /\ MatchedBy(policies[2])
    /\ AuditRecords # {}

(***************************************************************************)
(* Calls of evaluatePolicies in flight at the same time.  A call suspends  *)
(* once, at await loadPolicies(); what follows runs to its end without     *)
(* interruption.  The request, the loaded list and the response are locals *)
(* of the call.                                                            *)
(***************************************************************************)
CallPolicies == {policy001, policy002, Policy(P("3"), D("3"), <<Star>>, Undefined, Undefined)}

CallRequests ==
    {DecisionRequest(roles, action, Str(Open), StrArr(<<FCEyN>>), Str(U1)) :
        roles \in RoleLists, action \in RequestActions}

InitCalls ==
    /\ store \in ListsOver(CallPolicies)
    /\ policies = <<>>
    /\ req = NoRequest
    /\ resp = NoResponse
    /\ cond = NoCondition
    /\ condResult = "none"
    /\ log = <<>>
    /\ auditFails = FALSE
    /\ NoneInFlight
    /\ table = <<>>
    /\ user = Undefined
    /\ options = NoOptions

\* The request of the call begun last is read
callRequestShared(c) ==
    LET d == (c % MaxCalls) + 1
    IN  IF calls[d].pc = "loading" THEN calls[d].req ELSE calls[c].req

\* The req parameter of call c
callRequest(c) == calls[c].req

\* evaluatePolicies(req) up to await loadPolicies()
BeginCall(c) ==
    /\ calls[c].pc = "idle"
    /\ \E r \in CallRequests :
        calls' = [calls EXCEPT ![c] = [pc |-> "loading", req |-> r]]
    /\ UNCHANGED <<store, policies, req, resp, cond, condResult, log, auditFails, table, user, options>>

\* loadPolicies() has settled: the loop runs, the decision is logged and
\* returned
ResumeCall(c) ==
    /\ calls[c].pc = "loading"
    /\ \E readOk \in BOOLEAN :
        \E out \in {evaluateCall(loadPolicies(readOk), callRequest(c), auditFails)} :
            calls' = [calls EXCEPT ![c] =
                [pc |-> "done",
                 req |-> calls[c].req,
                 policies |-> loadPolicies(readOk),
                 resp |-> out.resp,
                 log |-> loadLog(readOk) \o out.log]]
    /\ UNCHANGED <<store, policies, req, resp, cond, condResult, log, auditFails, table, user, options>>

\* The caller has the result: the locals of the call are dropped
EndCall(c) ==
    /\ calls[c].pc = "done"
    /\ calls' = [calls EXCEPT ![c] = NoCall]
    /\ UNCHANGED <<store, policies, req, resp, cond, condResult, log, auditFails, table, user, options>>

NextCalls == \E c \in CallIds : BeginCall(c) \/ ResumeCall(c) \/ EndCall(c)

SpecCalls == InitCalls /\ [][NextCalls]_vars

(***************************************************************************)
(* Properties of calls in flight.                                          *)
(***************************************************************************)
Done(c) == calls[c].pc = "done"

PassingIn(list, r) == {i \in 1..Len(list) : PassesAll(list[i], r)}

\* The response the contract gives for a list and a request
Decided(list, r) ==
    IF PassingIn(list, r) = {}
    THEN [outcome |-> "return", allow |-> FALSE, reason |-> NoMatchingPolicy]
    ELSE LET i == CHOOSE i \in PassingIn(list, r) : \A j \in PassingIn(list, r) : i <= j
         IN  [outcome |-> "return", allow |-> TRUE,
              reason |-> Matched \o list[i].f.description.s,
              matchedPolicyId |-> IdOf(list[i])]

\* The response of every finished call is the one function of its own list
\* and request, and the list is what the store holds (or [] when the read
\* failed)
ResponseOfOwnInputs ==
    /\ \A c \in CallIds :
           Done(c) =>
               /\ calls[c].policies \in {store, <<>>}
               /\ calls[c].resp = Decided(calls[c].policies, calls[c].req)
    /\ \A c, d \in CallIds :
           (Done(c) /\ Done(d) /\ calls[c].req = calls[d].req
                /\ calls[c].policies = calls[d].policies)
               => calls[c].resp = calls[d].resp

\* C15 (determinism and statelessness): whatever calls were made before and
\* whatever calls are in flight, a call's response is determined by its own
\* request and policy list, and no step of a call writes to the store.
DeterministicDecision == []ResponseOfOwnInputs /\ [][store' = store]_vars

\* C15 witness: two calls in flight on the same store have finished with
\* different requests and different answers
DeterministicDecisionWitness ==
    /\ Done(1) /\ Done(2)
    /\ calls[1].req # calls[2].req
    /\ calls[1].policies = calls[2].policies
    /\ calls[1].resp.allow /\ ~calls[2].resp.allow

(***************************************************************************)
(* Policy storage: the file repository, the DynamoDB repository and the    *)
(* /policies routes.                                                       *)
(*   store   the list in data/policies.json                                *)
(*   table   the items of the DynamoDB table, in the order Scan returns    *)
(*           them: the order of the hashed partition keys, on which the    *)
(*           time of creation has no influence                             *)
(* An operation leaves its request in req and its outcome in resp; getAll  *)
(* leaves the list it returns in policies.                                 *)
(***************************************************************************)
StorePolicy(n, v) == Policy(P(n), D(v), <<Star>>, Undefined, Undefined)

StorePolicies ==
    {StorePolicy("a", "1"), StorePolicy("a", "2"), StorePolicy("b", "1"), StorePolicy("c", "1")}

TargetIds == {P("a"), P("b"), P("c")}

StorageRequest(via, kind, id, policy) ==
    [t |-> "storage", via |-> via, kind |-> kind, id |-> id, policy |-> policy]

Returned == [outcome |-> "return"]

HttpReply(status, body) == [outcome |-> "reply", status |-> status, body |-> body]

LogRecord(event, level) == [event |-> event, level |-> level]

\* No id is ever found
someIdNever(list, id) == FALSE

\* policies.some((p) => p.id === id)
someId(list, id) == \E i \in 1..Len(list) : Prop(list[i], "id") = Str(id)

\* policies.findIndex((p) => p.id === id), counted from 1; 0 for -1
findIndex(list, id) ==
    IF someId(list, id)
    THEN CHOOSE i \in 1..Len(list) :
             /\ Prop(list[i], "id") = Str(id)
             /\ \A j \in 1..(i - 1) : Prop(list[j], "id") # Str(id)
    ELSE 0

\* policies.filter((p) => p.id !== id)
filterId(list, id) == SelectSeq(list, LAMBDA p : Prop(p, "id") # Str(id))

InitStore ==
    /\ store = <<>>
    /\ policies = <<>>
    /\ req = NoRequest
    /\ resp = NoResponse
    /\ cond = NoCondition
    /\ condResult = "none"
    /\ log = <<>>
    /\ auditFails = FALSE
    /\ NoneInFlight
    /\ table = <<>>
    /\ user = Undefined
    /\ options = NoOptions

(***************************************************************************)
(* FilePolicyRepository.                                                   *)
(***************************************************************************)
\* getAll(): the parsed file, or [] when reading or parsing fails
fileGetAll(readOk) == IF readOk THEN store ELSE <<>>

fileReadLog(readOk) ==
    IF readOk THEN <<>> ELSE <<LogRecord("policy.file.read.error", "error")>>

FileGetAll ==
    /\ Idle
    /\ \E readOk \in BOOLEAN :
        /\ req' = StorageRequest("file", "getAll", <<>>, Undefined)
        /\ policies' = fileGetAll(readOk)
        /\ resp' = Returned
        /\ log' = fileReadLog(readOk)
    /\ UNCHANGED <<store, cond, condResult, auditFails, calls, table, user, options>>

FileCreate ==
    /\ Idle
    /\ \E policy \in StorePolicies, readOk \in BOOLEAN, writeOk \in BOOLEAN :
        LET list == fileGetAll(readOk)
            id == Prop(policy, "id").s
        IN  /\ Len(list) < MaxPolicies
            /\ req' = StorageRequest("file", "create", id, policy)
            /\ IF someId(list, id)
               THEN store' = store /\ resp' = Raised /\ log' = fileReadLog(readOk)
               ELSE IF writeOk
               THEN /\ store' = Append(list, policy)
                    /\ resp' = Returned
                    /\ log' = fileReadLog(readOk) \o <<LogRecord("policy.file.save", "info")>>
               ELSE store' = store /\ resp' = Raised /\ log' = fileReadLog(readOk)
    /\ UNCHANGED <<policies, cond, condResult, auditFails, calls, table, user, options>>

FileUpdate ==
    /\ Idle
    /\ \E policy \in StorePolicies, readOk \in BOOLEAN, writeOk \in BOOLEAN :
        LET list == fileGetAll(readOk)
            id == Prop(policy, "id").s
            idx == findIndex(list, id)
        IN  /\ req' = StorageRequest("file", "update", id, policy)
            /\ IF idx = 0
               THEN store' = store /\ resp' = Raised /\ log' = fileReadLog(readOk)
               ELSE IF writeOk
               THEN /\ store' = [list EXCEPT ![idx] = policy]
                    /\ resp' = Returned
                    /\ log' = fileReadLog(readOk) \o <<LogRecord("policy.file.save", "info")>>
               ELSE store' = store /\ resp' = Raised /\ log' = fileReadLog(readOk)
    /\ UNCHANGED <<policies, cond, condResult, auditFails, calls, table, user, options>>

FileDelete ==
    /\ Idle
    /\ \E id \in TargetIds, readOk \in BOOLEAN, writeOk \in BOOLEAN :
        LET newList == filterId(fileGetAll(readOk), id)
        IN  /\ req' = StorageRequest("file", "delete", id, Undefined)
            /\ IF writeOk
               THEN /\ store' = newList
                    /\ resp' = Returned
                    /\ log' = fileReadLog(readOk) \o <<LogRecord("policy.file.save", "info")>>
               ELSE store' = store /\ resp' = Raised /\ log' = fileReadLog(readOk)
    /\ UNCHANGED <<policies, cond, condResult, auditFails, calls, table, user, options>>

(***************************************************************************)
(* DynamoPolicyRepository.  An item is the policy with its partition key   *)
(* (the updatedAt field, a reading of the clock, is left out); every       *)
(* command raises when the service cannot be reached.                      *)
(***************************************************************************)
\* pk: `POLICY#${id}`
PolicyPk(id) == Str(<<"P","O","L","I","C","Y","#">> \o id)

\* { pk, ...policy, updatedAt }
Item(policy) == Obj(policy.f @@ [pk |-> PolicyPk(Prop(policy, "id").s)])

\* GetItemCommand: the item with the key is in the table
hasItem(pk) == \E i \in 1..Len(table) : table[i].f.pk = pk

InsertAt(seq, k, x) == SubSeq(seq, 1, k - 1) \o <<x>> \o SubSeq(seq, k, Len(seq))

\* PutItemCommand: the item replaces the one with its key, or is a new item,
\* which Scan returns at the place of its hashed key
putItem(item) ==
    IF hasItem(item.f.pk)
    THEN {[i \in 1..Len(table) |-> IF table[i].f.pk = item.f.pk THEN item ELSE table[i]]}
    ELSE {InsertAt(table, k, item) : k \in 1..(Len(table) + 1)}

\* DeleteItemCommand
deleteItem(pk) == SelectSeq(table, LAMBDA item : item.f.pk # pk)

DynamoGetAll ==
    /\ Idle
    /\ \E sendOk \in BOOLEAN :
        /\ req' = StorageRequest("dynamo", "getAll", <<>>, Undefined)
        /\ policies' = IF sendOk THEN table ELSE <<>>
        /\ resp' = IF sendOk THEN Returned ELSE Raised
    /\ UNCHANGED <<store, cond, condResult, log, auditFails, calls, table, user, options>>

DynamoCreate ==
    /\ Idle
    /\ \E policy \in StorePolicies, sendOk \in BOOLEAN :
        LET id == Prop(policy, "id").s
        IN  /\ Len(table) < MaxPolicies
            /\ req' = StorageRequest("dynamo", "create", id, policy)
            /\ IF ~sendOk \/ hasItem(PolicyPk(id))
               THEN table' = table /\ resp' = Raised /\ log' = log
               ELSE /\ table' \in putItem(Item(policy))
                    /\ resp' = Returned
                    /\ log' = <<LogRecord("policy.dynamo.create", "info")>>
    /\ UNCHANGED <<store, policies, cond, condResult, auditFails, calls, user, options>>

DynamoUpdate ==
    /\ Idle
    /\ \E policy \in StorePolicies, sendOk \in BOOLEAN :
        LET id == Prop(policy, "id").s
        IN  /\ hasItem(PolicyPk(id)) \/ Len(table) < MaxPolicies
            /\ req' = StorageRequest("dynamo", "update", id, policy)
            /\ IF ~sendOk
               THEN table' = table /\ resp' = Raised /\ log' = log
               ELSE /\ table' \in putItem(Item(policy))
                    /\ resp' = Returned
                    /\ log' = <<LogRecord("policy.dynamo.update", "info")>>
    /\ UNCHANGED <<store, policies, cond, condResult, auditFails, calls, user, options>>

DynamoDelete ==
    /\ Idle
    /\ \E id \in TargetIds, sendOk \in BOOLEAN :
        /\ req' = StorageRequest("dynamo", "delete", id, Undefined)
        /\ IF ~sendOk
           THEN table' = table /\ resp' = Raised /\ log' = log
           ELSE /\ table' = deleteItem(PolicyPk(id))
                /\ resp' = Returned
                /\ log' = <<LogRecord("policy.dynamo.delete", "info")>>
    /\ UNCHANGED <<store, policies, cond, condResult, auditFails, calls, user, options>>

(***************************************************************************)
(* The /policies routes, behind verifyTokenMiddleware.                     *)
(***************************************************************************)
Bearer == <<"B","e","a","r","e","r"," ">>
GoodToken == <<"g","o","o","d">>
BadToken == <<"b","a","d">>

\* The Authorization headers of the model: none, another scheme, a token
\* that does not verify, a token that does
AuthHeaders ==
    {Undefined, Str(<<"B","a","s","i","c"," ">> \o GoodToken),
     Str(Bearer \o BadToken), Str(Bearer \o GoodToken)}

\* authHeader.split(" ")[1]: what follows the first space, up to the next
RECURSIVE SplitSpace1(_, _, _)
SplitSpace1(h, i, seen) ==
    IF i > Len(h) THEN <<>>
    ELSE IF h[i] = " " THEN (IF seen THEN <<>> ELSE SplitSpace1(h, i + 1, TRUE))
    ELSE IF seen THEN <<h[i]>> \o SplitSpace1(h, i + 1, seen)
    ELSE SplitSpace1(h, i + 1, seen)

\* verifyToken(token): the payload, or null when jwt.verify raises
verifyToken(token) ==
    IF token = GoodToken THEN Obj([sub |-> Str(U1), role |-> Str(Admin)]) ELSE Null

\* verifyTokenMiddleware: the 401 it replies with, or the decoded payload it
\* leaves in req.user
verifyTokenMiddleware(authHeader) ==
    IF Nullish(authHeader) \/ ~StartsWith(authHeader.s, Bearer)
    THEN [reply |-> HttpReply(401, "Missing or invalid token"), user |-> Undefined]
    ELSE LET decoded == verifyToken(SplitSpace1(authHeader.s, 1, FALSE))
         IN  IF ~Truthy(decoded)
             THEN [reply |-> HttpReply(401, "Invalid or expired token"), user |-> Undefined]
             ELSE [reply |-> NoResponse, user |-> decoded]

\* What savePolicies logs
saveLog(writeOk) ==
    <<IF writeOk THEN LogRecord("policy.save", "info") ELSE LogRecord("policy.save.error", "error")>>

\* POST /policies
PostPolicy ==
    /\ Idle
    /\ \E h \in AuthHeaders, body \in StorePolicies, readOk \in BOOLEAN, writeOk \in BOOLEAN :
        LET auth == verifyTokenMiddleware(h)
            list == loadPolicies(readOk)
            id == Prop(body, "id").s
        IN  /\ Len(list) < MaxPolicies \/ someId(list, id)
            /\ req' = StorageRequest("route", "create", id, body)
            /\ user' = auth.user
            /\ IF auth.reply # NoResponse
               THEN store' = store /\ resp' = auth.reply /\ log' = log
               ELSE IF someId(list, id)
               THEN /\ store' = store
                    /\ resp' = HttpReply(400, "Policy already exists")
                    /\ log' = loadLog(readOk)
               ELSE /\ store' = IF writeOk THEN Append(list, body) ELSE store
                    /\ resp' = HttpReply(201, body)
                    /\ log' = loadLog(readOk) \o saveLog(writeOk)
    /\ UNCHANGED <<policies, cond, condResult, auditFails, calls, table, options>>

\* PUT /policies/:id
PutPolicy ==
    /\ Idle
    /\ \E h \in AuthHeaders, id \in TargetIds, body \in StorePolicies,
          readOk \in BOOLEAN, writeOk \in BOOLEAN :
        LET auth == verifyTokenMiddleware(h)
            list == loadPolicies(readOk)
            index == findIndex(list, id)
        IN  /\ req' = StorageRequest("route", "update", id, body)
            /\ user' = auth.user
            /\ IF auth.reply # NoResponse
               THEN store' = store /\ resp' = auth.reply /\ log' = log
               ELSE IF index = 0
               THEN /\ store' = store
                    /\ resp' = HttpReply(404, "Policy not found")
                    /\ log' = loadLog(readOk)
               ELSE /\ store' = IF writeOk THEN [list EXCEPT ![index] = body] ELSE store
                    /\ resp' = HttpReply(200, body)
                    /\ log' = loadLog(readOk) \o saveLog(writeOk)
    /\ UNCHANGED <<policies, cond, condResult, auditFails, calls, table, options>>

\* DELETE /policies/:id
DeletePolicy ==
    /\ Idle
    /\ \E h \in AuthHeaders, id \in TargetIds, readOk \in BOOLEAN, writeOk \in BOOLEAN :
        LET auth == verifyTokenMiddleware(h)
            list == loadPolicies(readOk)
            kept == filterId(list, id)
        IN  /\ req' = StorageRequest("route", "delete", id, Undefined)
            /\ user' = auth.user
            /\ IF auth.reply # NoResponse
               THEN store' = store /\ resp' = auth.reply /\ log' = log
               ELSE IF Len(kept) = Len(list)
               THEN /\ store' = store
                    /\ resp' = HttpReply(404, "Policy not found")
                    /\ log' = loadLog(readOk)
               ELSE /\ store' = IF writeOk THEN kept ELSE store
                    /\ resp' = HttpReply(204, Undefined)
                    /\ log' = loadLog(readOk) \o saveLog(writeOk)
    /\ UNCHANGED <<policies, cond, condResult, auditFails, calls, table, options>>

\* GET /policies/:id
GetPolicy ==
    /\ Idle
    /\ \E h \in AuthHeaders, id \in TargetIds, readOk \in BOOLEAN :
        \E auth \in {verifyTokenMiddleware(h)}, index \in {findIndex(loadPolicies(readOk), id)} :
            /\ req' = StorageRequest("route", "get", id, Undefined)
            /\ user' = auth.user
            /\ IF auth.reply # NoResponse
               THEN resp' = auth.reply /\ log' = log
               ELSE /\ resp' = IF index = 0
                               THEN HttpReply(404, "Policy not found")
                               ELSE HttpReply(200, loadPolicies(readOk)[index])
                    /\ log' = loadLog(readOk)
    /\ UNCHANGED <<store, policies, cond, condResult, auditFails, calls, table, options>>

NextStore ==
    \/ FileGetAll \/ FileCreate \/ FileUpdate \/ FileDelete
    \/ DynamoGetAll \/ DynamoCreate \/ DynamoUpdate \/ DynamoDelete
    \/ GetPolicy \/ PostPolicy \/ PutPolicy \/ DeletePolicy
    \/ Reply

SpecStore == InitStore /\ [][NextStore]_vars

(***************************************************************************)
(* Properties of policy storage.                                           *)
(***************************************************************************)
IdSeq(list) == [i \in 1..Len(list) |-> list[i].f.id.s]

\* a is b with some of its elements left out
RECURSIVE IsSubseq(_, _)
IsSubseq(a, b) ==
    IF a = <<>> THEN TRUE
    ELSE IF b = <<>> THEN FALSE
    ELSE IF Head(a) = Head(b) THEN IsSubseq(Tail(a), Tail(b))
    ELSE IsSubseq(a, Tail(b))

\* A stored list after an operation, against the list before it: a created
\* policy is last, behind policies that keep their order; an update changes
\* one position and no other; a delete leaves the others in their order
KeepsPriorityOrder(r, old, new) ==
    \/ new = old
    \/ /\ r.kind = "create"
       /\ new # <<>>
       /\ IdSeq(new)[Len(new)] = r.id
       /\ IsSubseq(IdSeq(SubSeq(new, 1, Len(new) - 1)), IdSeq(old))
    \/ /\ r.kind = "update"
       /\ Len(new) = Len(old)
       /\ \E i \in 1..Len(old) :
              /\ IdSeq(old)[i] = r.id
              /\ \A j \in 1..Len(old) : j # i => IdSeq(new)[j] = IdSeq(old)[j]
    \/ /\ r.kind = "delete"
       /\ IsSubseq(IdSeq(new), IdSeq(old))

\* C16 (storage preserves priority order), as claimed: in the file-backed
\* and in the DynamoDB-backed storage, the list getAll returns is in the
\* order of creation: create puts the policy last, update keeps its
\* position, delete keeps the order of the others.
StoragePreservesOrder ==
    [][/\ KeepsPriorityOrder(req', store, store')
       /\ KeepsPriorityOrder(req', table, table')]_vars

(***************************************************************************)
(* The engine of src/services/policyEvaluator.ts: the same loop over the   *)
(* two policies the module declares, without a store and without a log.    *)
(***************************************************************************)
FI == <<"F","I">>

ReferenceRoleLists == {<<>>, <<Admin>>, <<Ua>>, <<Operaciones>>, <<Ua, Admin>>}

ReferenceUaIdLists == {Undefined, StrArr(<<FCEyN>>), StrArr(<<FI>>)}

ReferenceRequests ==
    {DecisionRequest(roles, action, status, uaIds, ownerId) :
        roles \in ReferenceRoleLists, action \in RequestActions, status \in Statuses,
        uaIds \in ReferenceUaIdLists, ownerId \in OwnerIds}

\* const policies: Policy[] = [ policy-001, policy-002 ]
ReferencePolicies == <<policy001, policy002>>

InitReference ==
    /\ store = <<>>
    /\ policies = <<>>
    /\ req = NoRequest
    /\ resp = NoResponse
    /\ cond = NoCondition
    /\ condResult = "none"
    /\ log = <<>>
    /\ auditFails = FALSE
    /\ NoneInFlight
    /\ table = <<>>
    /\ user = Undefined
    /\ options = NoOptions

\* evaluatePolicies(req), synchronous
EvaluateReference ==
    /\ Idle
    /\ \E r \in ReferenceRequests :
        /\ policies' = ReferencePolicies
        /\ req' = r
        /\ resp' = evaluatePolicies(ReferencePolicies, r)
    /\ UNCHANGED <<store, cond, condResult, log, auditFails, calls, table, user, options>>

NextReference == EvaluateReference \/ Reply

SpecReference == InitReference /\ [][NextReference]_vars

\* C17 (reference scenario): with the list [policy-001, policy-002] a
\* request is allowed by policy-001 exactly when its action is padron:edit,
\* the subject holds "ua" or "operaciones", resource.status is "OPEN" and
\* subject.uaIds contains resource.uaId; otherwise by policy-002 exactly
\* when the subject holds "admin"; otherwise it is denied with
\* "No matching policy".
ReferenceScenario ==
    Called =>
        LET roles == RolesOf(req)
            subject == req.f.subject.f
            resource == req.f.resource.f
            first ==
                /\ req.f.action = Str(PadronEdit)
                /\ roles \cap {Str(Ua), Str(Operaciones)} # {}
                /\ "status" \in DOMAIN resource /\ resource.status = Str(Open)
                /\ "uaIds" \in DOMAIN subject /\ resource.uaId \in ItemSet(subject.uaIds)
        IN  IF first
            THEN resp = [outcome |-> "return", allow |-> TRUE,
                         reason |-> Matched \o Description001, matchedPolicyId |-> Id001]
            ELSE IF Str(Admin) \in roles
            THEN resp = [outcome |-> "return", allow |-> TRUE,
                         reason |-> Matched \o Description002, matchedPolicyId |-> Id002]
            ELSE resp = [outcome |-> "return", allow |-> FALSE, reason |-> NoMatchingPolicy]

\* C17 witness: a member of the UA asks to edit the padron in the CLOSED
\* stage and is denied
ReferenceScenarioWitness ==
    /\ Called
    /\ policies = ReferencePolicies
    /\ req.f.action = Str(PadronEdit)
    /\ RolesOf(req) = {Str(Ua)}
    /\ "status" \in DOMAIN req.f.resource.f /\ req.f.resource.f.status = Str(Closed)
    /\ "uaIds" \in DOMAIN req.f.subject.f
    /\ req.f.resource.f.uaId \in ItemSet(req.f.subject.f.uaIds)
    /\ ~resp.allow

(***************************************************************************)
(* Properties of the engine on malformed policy entries.                   *)
(***************************************************************************)
StringArray(v) ==
    /\ v.t = "array"
    /\ \A i \in 1..Len(v.items) : v.items[i].t = "string"

\* A primitive condition of the declared shape
WellFormedCondition(c) ==
    /\ c.t = "object"
    /\ \E form \in PrimitiveForms :
           /\ DOMAIN c.f = {form}
           /\ StringArray(c.f[form])
           /\ Len(c.f[form].items) = 2

\* A policy of the declared shape: actions, optional rbac with an optional
\* anyRole list, optional abac with optional all and any lists of primitives
WellFormedPolicy(p) ==
    /\ p.t = "object"
    /\ Has(p, "actions") /\ StringArray(p.f.actions)
    /\ Has(p, "rbac") =>
           /\ p.f.rbac.t = "object"
           /\ Has(p.f.rbac, "anyRole") => StringArray(p.f.rbac.f.anyRole)
    /\ Has(p, "abac") =>
           /\ p.f.abac.t = "object"
           /\ DOMAIN p.f.abac.f \subseteq {"all", "any"}
           /\ \A k \in DOMAIN p.f.abac.f :
                  /\ p.f.abac.f[k].t = "array"
                  /\ \A c \in ItemSet(p.f.abac.f[k]) : WellFormedCondition(c)

\* C18 (malformed policy entries), as claimed: a malformed entry never
\* matches and does not end the evaluation, so the response is the one the
\* well-formed policies of the list give, in their order.
MalformedPolicyIsSkipped ==
    Called => resp = Decided(SelectSeq(policies, WellFormedPolicy), req)

\* C19 (load failure is surfaced), as claimed: when reading or parsing the
\* policy store fails, the call does not end with a DecisionResponse.
LoadFailureIsSurfaced ==
    (Called /\ \E i \in 1..Len(log) : log[i].event = "policy.load.error")
        => resp.outcome # "return"

(***************************************************************************)
(* POST /decision, behind keycloakAuthMiddleware.                          *)
(***************************************************************************)
TokenOfU1 == <<"t","1">>
TokenOfAdmin == <<"t","2">>
TokenWithoutRealm == <<"t","3">>

\* jwt.verify(token, getKey, {issuer, algorithms}): the decoded claims, or
\* null for a token that does not verify
decodedClaims(token) ==
    CASE token = TokenOfU1 ->
             Obj([sub |-> Str(U1), realm_access |-> Obj([roles |-> StrArr(<<>>)])])
      [] token = TokenOfAdmin ->
             Obj([sub |-> Str(U2), realm_access |-> Obj([roles |-> StrArr(<<Admin>>)])])
      [] token = TokenWithoutRealm -> Obj([sub |-> Str(U1)])
      [] OTHER -> Null

KeycloakHeaders ==
    {Undefined, Str(Bearer \o BadToken), Str(Bearer \o TokenOfU1),
     Str(Bearer \o TokenOfAdmin), Str(Bearer \o TokenWithoutRealm)}

\* { email: user.email, username: user.preferred_username,
\*   roles: user.realm_access?.roles || [], ...user }
KeycloakUser(decoded) ==
    LET roles == OptProp(Prop(decoded, "realm_access"), "roles")
    IN  Obj(decoded.f @@ [roles |-> IF Truthy(roles) THEN roles ELSE StrArr(<<>>)]
                     @@ Field("email", Prop(decoded, "email"))
                     @@ Field("username", Prop(decoded, "preferred_username")))

\* keycloakAuthMiddleware: the 401 it replies with, or the user it leaves in
\* req.user
keycloakAuthMiddleware(authHeader) ==
    IF Nullish(authHeader) \/ ~StartsWith(authHeader.s, Bearer)
    THEN [reply |-> HttpReply(401, "Missing or invalid token"), user |-> Undefined]
    ELSE LET decoded == decodedClaims(SplitSpace1(authHeader.s, 1, FALSE))
         IN  IF Nullish(decoded)
             THEN [reply |-> HttpReply(401, "Invalid or expired token"), user |-> Undefined]
             ELSE [reply |-> NoResponse, user |-> KeycloakUser(decoded)]

InitPdp ==
    /\ store \in ListsOver(CallPolicies)
    /\ policies = <<>>
    /\ req = NoRequest
    /\ resp = NoResponse
    /\ cond = NoCondition
    /\ condResult = "none"
    /\ log = <<>>
    /\ auditFails = FALSE
    /\ NoneInFlight
    /\ table = <<>>
    /\ user = Undefined
    /\ options = NoOptions

\* The handler: const decision = await evaluatePolicies(req.body);
\* return reply.send(decision).  A call that raises is answered with 500.
PostDecision ==
    /\ Idle
    /\ \E h \in KeycloakHeaders, body \in Requests, readOk \in BOOLEAN :
        \E auth \in {keycloakAuthMiddleware(h)},
           out \in {evaluateCall(loadPolicies(readOk), body, auditFails)} :
            /\ req' = body
            /\ user' = auth.user
            /\ IF auth.reply # NoResponse
               THEN policies' = <<>> /\ resp' = auth.reply /\ log' = log
               ELSE /\ policies' = loadPolicies(readOk)
                    /\ resp' = IF out.resp.outcome = "return"
                               THEN HttpReply(200, out.resp)
                               ELSE HttpReply(500, "Internal Server Error")
                    /\ log' = loadLog(readOk) \o out.log
    /\ UNCHANGED <<store, cond, condResult, auditFails, calls, table, options>>

NextPdp == PostDecision \/ Reply

SpecPdp == InitPdp /\ [][NextPdp]_vars

\* The request with the subject the token gives: its sub and its roles
WithTokenSubject(r, u) ==
    Obj([subject |-> Obj([sub |-> u.f.sub, roles |-> u.f.roles]),
         action |-> r.f.action,
         resource |-> r.f.resource])

\* C20 (the subject is the token's), as claimed: the decision of
\* POST /decision is the one for the subject of the verified token, whatever
\* subject the body names; a caller whose token has no "admin" role gets no
\* allow from a policy restricted to anyRole ["admin"].
SubjectFromToken ==
    (resp.outcome = "reply" /\ resp.status = 200) =>
        /\ resp.body = Decided(policies, WithTokenSubject(req, user))
        /\ \A i \in 1..Len(policies) :
               (/\ resp.body.allow
                /\ resp.body.matchedPolicyId = IdOf(policies[i])
                /\ HasAnyRole(policies[i])
                /\ AnyRoleOf(policies[i]) = {Str(Admin)})
                   => Str(Admin) \in ItemSet(user.f.roles)

(***************************************************************************)
(* The enforcement point of the SDK: sentinelMiddleware() and protect()    *)
(* for Express, sentinelPlugin() and protectRoute() for Fastify.  An       *)
(* application is configured once; each request it serves is a call in     *)
(* flight that waits for the answer of the decision point.                 *)
(***************************************************************************)
Frameworks == {"express", "fastify"}

\* onUnauthorized?: "block" | "continue"; absent, it is "block"
OnUnauthorized == {"block", "continue"}

\* installed: sentinelMiddleware() / sentinelPlugin() runs before the route
SdkOptions ==
    {[onUnauthorized |-> o, installed |-> i, framework |-> f] :
        o \in OnUnauthorized, i \in BOOLEAN, f \in Frameworks}

ServiceUnavailable ==
    <<"A","u","t","h","o","r","i","z","a","t","i","o","n"," ","s","e","r","v",
      "i","c","e"," ","u","n","a","v","a","i","l","a","b","l","e">>

\* What fetch(`${baseUrl}/decision`) gives: it rejects, or the decision
\* point answers 200 with a decision of its engine, or it answers 401 or 500
PdpAnswers ==
    {Raised}
        \cup {HttpReply(200, evaluatePolicies(ReferencePolicies, r)) : r \in ReferenceRequests}
        \cup {HttpReply(401, "Unauthorized"), HttpReply(500, "Internal Server Error")}

\* res.ok
Ok(answer) == answer.status \in 200..299

\* SentinelClient.authorize: if (!res.ok) throw ...; return await res.json()
clientAuthorize(answer) ==
    IF answer = Raised THEN Raised
    ELSE IF ~Ok(answer) THEN Raised
    ELSE answer.body

\* The decision a failing call of the client is turned into
UnavailableDecision ==
    [outcome |-> "return", allow |-> FALSE, reason |-> ServiceUnavailable]

\* A failing call of the client is turned into an allow
authorizeFailOpen(opts, answer) ==
    IF clientAuthorize(answer) # Raised THEN clientAuthorize(answer)
    ELSE IF opts.onUnauthorized = "block" THEN Raised
    ELSE [outcome |-> "return", allow |-> TRUE, reason |-> ServiceUnavailable]

\* req.sentinel.authorize: try { return await client.authorize(...) }
\* catch { if (onUnauthorized === "block") throw error; return deny }
authorize(opts, answer) ==
    IF clientAuthorize(answer) # Raised THEN clientAuthorize(answer)
    ELSE IF opts.onUnauthorized = "block" THEN Raised
    ELSE UnavailableDecision

\* The reply of protect() / protectRoute() before the helper is installed
NotInitialized(opts) ==
    HttpReply(500,
        [error |-> IF opts.framework = "express"
                   THEN "Sentinel middleware not initialized. Add sentinelMiddleware() before protect()."
                   ELSE "Sentinel plugin not registered. Register sentinelPlugin first."])

Forbidden(reason) == HttpReply(403, [error |-> "Forbidden", reason |-> reason])

CheckFailed == HttpReply(500, [error |-> "Authorization check failed"])

\* protect() and protectRoute() once authorize has settled with decision d:
\* the reply sent, and whether the route handler runs (next() is called, or
\* the preHandler returns without a reply)
afterAuthorize(d) ==
    IF d = Raised THEN [reply |-> CheckFailed, handlerRan |-> FALSE]
    ELSE IF ~d.allow THEN [reply |-> Forbidden(d.reason), handlerRan |-> FALSE]
    ELSE [reply |-> NoResponse, handlerRan |-> TRUE]

InitPep ==
    /\ store = <<>>
    /\ policies = <<>>
    /\ req = NoRequest
    /\ resp = NoResponse
    /\ cond = NoCondition
    /\ condResult = "none"
    /\ log = <<>>
    /\ auditFails = FALSE
    /\ NoneInFlight
    /\ table = <<>>
    /\ user = Undefined
    /\ options \in SdkOptions

\* protect() up to await sentinelReq.sentinel.authorize(...); without the
\* helper the request is answered at once
BeginProtect(c) ==
    /\ calls[c].pc = "idle"
    /\ calls' = [calls EXCEPT ![c] =
            IF options.installed
            THEN [pc |-> "authorizing"]
            ELSE [pc |-> "done", answer |-> NoResponse,
                  reply |-> NotInitialized(options), handlerRan |-> FALSE]]
    /\ UNCHANGED <<store, policies, req, resp, cond, condResult, log, auditFails, table, user,
                   options>>

\* The call of the decision point settles and protect() goes on
ResumeProtect(c) ==
    /\ calls[c].pc = "authorizing"
    /\ \E answer \in PdpAnswers :
        \E out \in {afterAuthorize(authorize(options, answer))} :
            calls' = [calls EXCEPT ![c] =
                [pc |-> "done", answer |-> answer,
                 reply |-> out.reply, handlerRan |-> out.handlerRan]]
    /\ UNCHANGED <<store, policies, req, resp, cond, condResult, log, auditFails, table, user,
                   options>>

\* The request is over
EndProtect(c) ==
    /\ calls[c].pc = "done"
    /\ calls' = [calls EXCEPT ![c] = NoCall]
    /\ UNCHANGED <<store, policies, req, resp, cond, condResult, log, auditFails, table, user,
                   options>>

NextPep == \E c \in CallIds : BeginProtect(c) \/ ResumeProtect(c) \/ EndProtect(c)

SpecPep == InitPep /\ [][NextPep]_vars

\* The decision point answered 200 with a decision that allows / denies
PdpAllowed(c) ==
    /\ calls[c].answer # NoResponse
    /\ calls[c].answer # Raised
    /\ Ok(calls[c].answer)
    /\ calls[c].answer.body.allow

PdpDenied(c) ==
    /\ calls[c].answer # NoResponse
    /\ calls[c].answer # Raised
    /\ Ok(calls[c].answer)
    /\ ~calls[c].answer.body.allow

AuthorizationFailed(c) == Done(c) /\ ~(options.installed /\ PdpAllowed(c))

\* C22 (onUnauthorized), as documented: when authorization fails the request
\* is answered 403 under "block" and continues to the handler under
\* "continue".
OnUnauthorizedDecides ==
    \A c \in CallIds :
        AuthorizationFailed(c) =>
            /\ options.onUnauthorized = "block" =>
                   (calls[c].reply.outcome = "reply" /\ calls[c].reply.status = 403)
            /\ options.onUnauthorized = "continue" => calls[c].handlerRan

\* The ids of a stored list are pairwise different
UniqueIds(list) ==
    \A i, j \in 1..Len(list) : i # j => IdSeq(list)[i] # IdSeq(list)[j]

\* An update addressed by id that is acknowledged leaves a policy with that
\* id where the policy with that id was
UpdateKeepsId(r, answer, old, new) ==
    (/\ r # NoRequest
     /\ r.kind = "update"
     /\ answer \in {Returned} \cup {HttpReply(200, b) : b \in StorePolicies})
        => \A i \in 1..Len(old) :
               IdSeq(old)[i] = r.id => (i <= Len(new) /\ IdSeq(new)[i] = r.id)

\* C23 (unique and stable ids), as claimed: after any sequence of policy
\* operations no two stored policies have the same id, and an update of the
\* policy addressed by id X leaves a policy with id X at the same position.
UniqueStableIds ==
    /\ [](UniqueIds(store) /\ UniqueIds(table))
    /\ [][/\ UpdateKeepsId(req', resp', store, store')
          /\ UpdateKeepsId(req', resp', table, table')]_vars

(***************************************************************************)
(* The loop of evaluatePolicies, one test at a time.  A call in flight     *)
(* holds its request, the list it loaded, the position i of the loop, the  *)
(* test it is about to make and the tests it has made so far.              *)
(***************************************************************************)
StepPolicies ==
    {policy001,
     policy002,
     Policy(P("9"), D("9"), <<DocRead, PadronEdit>>, Undefined,
            AbacAllAny(<<Primitive("ne", PStatus, Closed)>>,
                       <<Primitive("in", PUaId, PUaIds), Primitive("eq", POwnerId, PSub)>>))}

StepRequests ==
    {DecisionRequest(roles, action, status, StrArr(<<FCEyN>>), Str(U1)) :
        roles \in RoleLists, action \in RequestActions, status \in {Str(Open), Str(Closed)}}

InitSteps ==
    /\ store \in ListsOver(StepPolicies)
    /\ policies = <<>>
    /\ req = NoRequest
    /\ resp = NoResponse
    /\ cond = NoCondition
    /\ condResult = "none"
    /\ log = <<>>
    /\ auditFails = FALSE
    /\ NoneInFlight
    /\ table = <<>>
    /\ user = Undefined
    /\ options = NoOptions

Test(i, filter) == [i |-> i, filter |-> filter]

\* The call returns or raises
finish(call, response) ==
    [pc |-> "done", req |-> call.req, policies |-> call.policies, i |-> call.i,
     trace |-> call.trace, resp |-> response]

\* The loop goes back to the policy before
afterTestRewind(call, filter, o, next) ==
    IF o = "pass" THEN [call EXCEPT !.pc = next, !.trace = Append(@, Test(call.i, filter))]
    ELSE IF o = "fail"
    THEN [call EXCEPT !.pc = "for", !.i = IF @ > 1 THEN @ - 1 ELSE @ + 1,
                      !.trace = Append(@, Test(call.i, filter))]
    ELSE finish([call EXCEPT !.trace = Append(@, Test(call.i, filter))], Raised)

\* A test of the loop body has been made with outcome o: the body goes on
\* with the next test, or the loop continues with the next policy, or the
\* call raises
afterTest(call, filter, o, next) ==
    IF o = "pass" THEN [call EXCEPT !.pc = next, !.trace = Append(@, Test(call.i, filter))]
    ELSE IF o = "fail"
    THEN [call EXCEPT !.pc = "for", !.i = @ + 1, !.trace = Append(@, Test(call.i, filter))]
    ELSE finish([call EXCEPT !.trace = Append(@, Test(call.i, filter))], Raised)

\* evaluatePolicies(req): const policies = await loadPolicies()
BeginLoop(c) ==
    /\ calls[c].pc = "idle"
    /\ \E r \in StepRequests, readOk \in BOOLEAN :
        calls' = [calls EXCEPT ![c] =
            [pc |-> "for", req |-> r, policies |-> loadPolicies(readOk), i |-> 1,
             trace |-> <<>>]]
    /\ UNCHANGED <<store, policies, req, resp, cond, condResult, log, auditFails, table, user,
                   options>>

\* for (const policy of policies): the next policy, or the final return
ForTest(c) ==
    /\ calls[c].pc = "for"
    /\ calls' = [calls EXCEPT ![c] =
            IF calls[c].i > Len(calls[c].policies)
            THEN finish(calls[c], DenyResponse)
            ELSE [calls[c] EXCEPT !.pc = "action"]]
    /\ UNCHANGED <<store, policies, req, resp, cond, condResult, log, auditFails, table, user,
                   options>>

\* const matchAction = ...; if (!matchAction) continue;
ActionTest(c) ==
    /\ calls[c].pc = "action"
    /\ calls' = [calls EXCEPT ![c] =
            afterTest(calls[c], "action",
                      matchAction(calls[c].policies[calls[c].i], calls[c].req), "rbac")]
    /\ UNCHANGED <<store, policies, req, resp, cond, condResult, log, auditFails, table, user,
                   options>>

\* if (policy.rbac?.anyRole) { ...; if (!hasRole) continue; }
RbacTest(c) ==
    /\ calls[c].pc = "rbac"
    /\ calls' = [calls EXCEPT ![c] =
            afterTest(calls[c], "rbac",
                      rbacFilter(calls[c].policies[calls[c].i], calls[c].req), "all")]
    /\ UNCHANGED <<store, policies, req, resp, cond, condResult, log, auditFails, table, user,
                   options>>

\* if (policy.abac?.all) { ...; if (!allMatch) continue; }
AllTest(c) ==
    /\ calls[c].pc = "all"
    /\ calls' = [calls EXCEPT ![c] =
            afterTest(calls[c], "all",
                      allFilter(calls[c].policies[calls[c].i], calls[c].req), "any")]
    /\ UNCHANGED <<store, policies, req, resp, cond, condResult, log, auditFails, table, user,
                   options>>

\* if (policy.abac?.any) { ...; if (!anyMatch) continue; }
AnyTest(c) ==
    /\ calls[c].pc = "any"
    /\ calls' = [calls EXCEPT ![c] =
            afterTest(calls[c], "any",
                      anyFilter(calls[c].policies[calls[c].i], calls[c].req), "return")]
    /\ UNCHANGED <<store, policies, req, resp, cond, condResult, log, auditFails, table, user,
                   options>>

\* return { allow: true, reason: `Matched ${policy.description}`, ... }
ReturnMatch(c) ==
    /\ calls[c].pc = "return"
    /\ calls' = [calls EXCEPT ![c] =
            finish(calls[c], AllowResponse(calls[c].policies[calls[c].i]))]
    /\ UNCHANGED <<store, policies, req, resp, cond, condResult, log, auditFails, table, user,
                   options>>

\* The caller has the result
EndLoop(c) ==
    /\ calls[c].pc = "done"
    /\ calls' = [calls EXCEPT ![c] = NoCall]
    /\ UNCHANGED <<store, policies, req, resp, cond, condResult, log, auditFails, table, user,
                   options>>

LoopStep(c) ==
    \/ ForTest(c) \/ ActionTest(c) \/ RbacTest(c) \/ AllTest(c) \/ AnyTest(c)
    \/ ReturnMatch(c)

NextSteps == \E c \in CallIds : BeginLoop(c) \/ LoopStep(c) \/ EndLoop(c)

SpecSteps == InitSteps /\ [][NextSteps]_vars

\* The tests made on the policy at position i, in the order they were made
TestsOn(call, i) ==
    LET made == SelectSeq(call.trace, LAMBDA t : t.i = i)
    IN  [k \in 1..Len(made) |-> made[k].filter]

FilterOrder == <<"action", "rbac", "all", "any">>

\* The positions go up one at a time from 1, and the tests on a policy are a
\* prefix of action, rbac, all, any: each policy at most once, in list order
InListOrder(call) ==
    /\ \A k \in 1..Len(call.trace) :
           /\ call.trace[k].i \in 1..Len(call.policies)
           /\ k = 1 => call.trace[k] = Test(1, "action")
           /\ k > 1 => \/ /\ call.trace[k].i = call.trace[k - 1].i
                          /\ call.trace[k].filter # "action"
                       \/ call.trace[k] = Test(call.trace[k - 1].i + 1, "action")
    /\ \A i \in 1..Len(call.policies) :
           TestsOn(call, i) = SubSeq(FilterOrder, 1, Len(TestsOn(call, i)))

\* RBAC is tested only behind a passing action filter, ABAC only behind
\* both, and a later policy only behind a policy that did not pass all three
ShortCircuits(call) ==
    \A k \in 1..Len(call.trace) :
        LET t == call.trace[k]
            p == call.policies[t.i]
        IN  /\ t.filter = "rbac" => PassesAction(p, call.req)
            /\ t.filter \in {"all", "any"} =>
                   (PassesAction(p, call.req) /\ PassesRbac(p, call.req))
            /\ t.i > 1 => ~PassesAll(call.policies[t.i - 1], call.req)

\* A call that has returned an allow tested no policy behind the match, and
\* one that has returned a deny tested every policy
StopsAtMatch(call) ==
    call.pc = "done" =>
        /\ call.resp = evaluatePolicies(call.policies, call.req)
        /\ call.resp.allow =>
               /\ call.resp.matchedPolicyId = IdOf(call.policies[call.i])
               /\ \A k \in 1..Len(call.trace) : call.trace[k].i <= call.i
        /\ ~call.resp.allow =>
               {call.trace[k].i : k \in 1..Len(call.trace)} = 1..Len(call.policies)

\* What is left of the loop: the policies not yet looked at, then the tests
\* not yet made on the current one
Remaining(call) ==
    IF call.pc \in {"idle", "done"} THEN 0
    ELSE 6 * (Len(call.policies) + 1 - call.i)
         + (CASE call.pc = "for" -> 5 [] call.pc = "action" -> 4 [] call.pc = "rbac" -> 3
              [] call.pc = "all" -> 2 [] call.pc = "any" -> 1 [] OTHER -> 0)

\* C24 (order and short circuit): the policies are examined one at a time in
\* list order, each at most once; within a policy the action filter comes
\* first, the RBAC filter only if it passed, the ABAC clause only if both
\* passed; once a policy passes all three no later policy is examined; and
\* every step of the loop brings the call nearer to its end, which it
\* reaches within as many iterations as there are policies.
EvaluationOrder ==
    /\ [](\A c \in CallIds :
             calls[c].pc # "idle" =>
                 /\ InListOrder(calls[c])
                 /\ ShortCircuits(calls[c])
                 /\ StopsAtMatch(calls[c])
                 /\ calls[c].i <= Len(calls[c].policies) + 1)
    /\ [][\A c \in CallIds :
             (calls[c].pc \notin {"idle", "done"} /\ calls'[c] # calls[c]) =>
                 Remaining(calls'[c]) < Remaining(calls[c])]_vars

EvaluationOrderWitness ==
    /\ calls[1].pc = "done"
    /\ Len(calls[1].policies) = 2
    /\ calls[1].resp = AllowResponse(calls[1].policies[1])
    /\ Len(calls[1].trace) = 4
    /\ calls[2].pc = "done"
    /\ calls[2].resp = DenyResponse
    /\ Len(calls[2].policies) = 2
    /\ \E k \in 1..Len(calls[2].trace) : calls[2].trace[k] = Test(1, "rbac")

(***************************************************************************)
(* Properties of the filters of one policy.                                *)
(***************************************************************************)
\* The abac clause of the policy has an all list and an any list
HasAllAndAny(p) == Has(p, "abac") /\ Has(p.f.abac, "all") /\ Has(p.f.abac, "any")

\* The loop reaches the ABAC filter of the policy at position i
ReachesAbac(i) ==
    /\ PassesAction(policies[i], req)
    /\ PassesRbac(policies[i], req)
    /\ \A j \in 1..(i - 1) : ~PassesAll(policies[j], req)

\* C25 (all and any are conjoined): a policy with both an all list and an
\* any list passes the ABAC filter only if every condition of all holds and
\* at least one condition of any holds.
AllAndAnyConjoined ==
    (Called /\ resp.outcome = "return") =>
        \A i \in 1..Len(policies) :
            (HasAllAndAny(policies[i]) /\ ReachesAbac(i)) =>
                ((resp.allow /\ resp.matchedPolicyId = IdOf(policies[i]))
                    <=> (/\ \A c \in ItemSet(policies[i].f.abac.f.all) : Holds(c, req)
                         /\ \E c \in ItemSet(policies[i].f.abac.f.any) : Holds(c, req)))

AllAndAnyConjoinedWitness ==
    /\ Called
    /\ Len(policies) = 2
    /\ HasAllAndAny(policies[1]) /\ ReachesAbac(1)
    /\ \A c \in ItemSet(policies[1].f.abac.f.all) : Holds(c, req)
    /\ \A c \in ItemSet(policies[1].f.abac.f.any) : ~Holds(c, req)
    /\ resp.outcome = "return"
    /\ resp.allow
    /\ resp.matchedPolicyId = IdOf(policies[2])

\* rbac.anyRole is present and empty
EmptyAnyRole(p) == HasAnyRole(p) /\ AnyRoleOf(p) = {}

\* C26 (an empty anyRole matches nobody): a policy whose rbac.anyRole is []
\* is never the match of a request, whatever the roles of the subject.
EmptyAnyRoleNeverMatches ==
    (Called /\ resp.outcome = "return" /\ resp.allow) =>
        \A i \in 1..Len(policies) :
            EmptyAnyRole(policies[i]) => resp.matchedPolicyId # IdOf(policies[i])

EmptyAnyRoleNeverMatchesWitness ==
    /\ Called
    /\ Len(policies) = 2
    /\ EmptyAnyRole(policies[1])
    /\ PassesAction(policies[1], req)
    /\ PassesAbac(policies[1], req)
    /\ RolesOf(req) # {}
    /\ resp.outcome = "return"
    /\ resp.allow
    /\ resp.matchedPolicyId = IdOf(policies[2])

(***************************************************************************)
(* Requests that leave attributes out: subject.sub and resource.ownerId    *)
(* are optional, resource.status and context are absent.                   *)
(***************************************************************************)
SparseRequest(sub, ownerId, action) ==
    Obj([subject |-> Obj([roles |-> StrArr(<<>>)] @@ Field("sub", sub)),
         action |-> Str(action),
         resource |-> Obj([type |-> Str(Padron)] @@ Field("ownerId", ownerId))])

SparseRequests ==
    {SparseRequest(sub, ownerId, action) :
        sub \in {Undefined, Str(U1), Str(U2)}, ownerId \in {Undefined, Str(U1), Str(U2)},
        action \in RequestActions}

\* A policy guarded only by eq("${resource.ownerId}", "${subject.sub}")
ownerPolicy ==
    Policy(P("o"), D("o"), <<Star>>, Undefined, AbacAll(<<Primitive("eq", POwnerId, PSub)>>))

OwnerPolicies ==
    {ownerPolicy,
     policy002,
     Policy(P("n"), D("n"), <<DocRead>>, Undefined,
            AbacAll(<<Primitive("ne", PStatus, Closed)>>))}

SparseConditions ==
    {Primitive(form, a, b) :
        form \in {"eq", "ne"}, a \in {POwnerId, PSub, PStatus, PContextIp, U1},
        b \in {POwnerId, PSub, PContextIp, U1, Closed}}

InitSparse ==
    /\ store \in ListsOver(OwnerPolicies)
    /\ policies = <<>>
    /\ req = NoRequest
    /\ resp = NoResponse
    /\ cond = NoCondition
    /\ condResult = "none"
    /\ log = <<>>
    /\ auditFails = FALSE
    /\ NoneInFlight
    /\ table = <<>>
    /\ user = Undefined
    /\ options = NoOptions

\* evaluateCondition(cond, ctx) on a request that leaves attributes out
EvaluateSparseCondition ==
    /\ Idle
    /\ \E r \in SparseRequests, c \in SparseConditions :
        /\ req' = r
        /\ cond' = c
        /\ condResult' = evaluateCondition(c, r)
    /\ UNCHANGED <<store, policies, resp, log, auditFails, calls, table, user, options>>

\* evaluatePolicies(req) on a request that leaves attributes out
DecideSparse ==
    /\ Idle
    /\ \E r \in SparseRequests, readOk \in BOOLEAN :
        \E out \in {evaluateCall(loadPolicies(readOk), r, auditFails)} :
            /\ policies' = loadPolicies(readOk)
            /\ req' = r
            /\ resp' = out.resp
            /\ log' = loadLog(readOk) \o out.log
    /\ UNCHANGED <<store, cond, condResult, auditFails, calls, table, user, options>>

NextSparse == EvaluateSparseCondition \/ DecideSparse \/ Reply

SpecSparse == InitSparse /\ [][NextSparse]_vars

\* The request has neither resource.ownerId nor subject.sub
Anonymous(r) == ~Has(r.f.resource, "ownerId") /\ ~Has(r.f.subject, "sub")

\* C27 (missing operands): eq of two path references that are both missing
\* from the request is true, ne of a missing path and a literal is true, and
\* a policy guarded only by eq of resource.ownerId and subject.sub matches a
\* request that has neither attribute.
MissingOperands ==
    /\ (Evaluated /\ FormOf(cond) = "eq"
           /\ OperandString(cond, 1) \in PathReferences
           /\ OperandString(cond, 2) \in PathReferences
           /\ ValueAt(req, FieldsOf(OperandString(cond, 1))) = Undefined
           /\ ValueAt(req, FieldsOf(OperandString(cond, 2))) = Undefined)
          => condResult = "true"
    /\ (Evaluated /\ FormOf(cond) = "ne"
           /\ OperandString(cond, 1) \in PathReferences
           /\ ValueAt(req, FieldsOf(OperandString(cond, 1))) = Undefined
           /\ OperandString(cond, 2) \notin PathReferences)
          => condResult = "true"
    /\ (Called /\ policies # <<>> /\ policies[1] = ownerPolicy /\ Anonymous(req))
          => resp = AllowResponse(ownerPolicy)

MissingOperandsWitness ==
    /\ Called
    /\ Len(policies) = 2
    /\ policies[1] = ownerPolicy
    /\ Anonymous(req)
    /\ resp = AllowResponse(ownerPolicy)

(***************************************************************************)
(* The writes of the /policies routes in flight.  A handler loads the      *)
(* whole list, changes its copy and saves the whole list; it gives way to  *)
(* other requests at await loadPolicies() and at await savePolicies().     *)
(* The answers of the requests made together are collected together.       *)
(***************************************************************************)
WritePolicies == {StorePolicy("a", "1"), StorePolicy("a", "2"), StorePolicy("b", "1")}

WriteIds == {P("a"), P("b")}

\* POST with a body, PUT with an id and a body, DELETE with an id
WriteOps ==
    {[kind |-> "create", id |-> IdOf(b), body |-> b] : b \in WritePolicies}
        \cup {[kind |-> "update", id |-> id, body |-> b] : id \in WriteIds, b \in WritePolicies}
        \cup {[kind |-> "delete", id |-> id, body |-> Undefined] : id \in WriteIds}

WriteHeaders == {Undefined, Str(Bearer \o GoodToken)}

InitWrites ==
    /\ store = <<>>
    /\ policies = <<>>
    /\ req = NoRequest
    /\ resp = NoResponse
    /\ cond = NoCondition
    /\ condResult = "none"
    /\ log = <<>>
    /\ auditFails = FALSE
    /\ NoneInFlight
    /\ table = <<>>
    /\ user = Undefined
    /\ options = NoOptions

\* The request is answered
answered(call, reply) ==
    [pc |-> "done", op |-> call.op, io |-> call.io, reply |-> reply]

\* The handler between await loadPolicies() and await savePolicies(): it
\* answers 400 or 404, or has the list to save and the answer to give then
changed(op, list) ==
    CASE op.kind = "create" ->
             IF someId(list, op.id)
             THEN [reply |-> HttpReply(400, "Policy already exists")]
             ELSE [save |-> Append(list, op.body), reply |-> HttpReply(201, op.body)]
      [] op.kind = "update" ->
             IF findIndex(list, op.id) = 0
             THEN [reply |-> HttpReply(404, "Policy not found")]
             ELSE [save |-> [list EXCEPT ![findIndex(list, op.id)] = op.body],
                   reply |-> HttpReply(200, op.body)]
      [] op.kind = "delete" ->
             IF Len(filterId(list, op.id)) = Len(list)
             THEN [reply |-> HttpReply(404, "Policy not found")]
             ELSE [save |-> filterId(list, op.id), reply |-> HttpReply(204, Undefined)]

\* preHandler: verifyTokenMiddleware; then the handler up to
\* await loadPolicies()
BeginWrite(c) ==
    /\ calls[c].pc = "idle"
    /\ \E h \in WriteHeaders, op \in WriteOps :
        \E auth \in {verifyTokenMiddleware(h)} :
            calls' = [calls EXCEPT ![c] =
                IF auth.reply # NoResponse
                THEN [pc |-> "done", op |-> op, io |-> TRUE, reply |-> auth.reply]
                ELSE [pc |-> "loading", op |-> op, io |-> TRUE]]
    /\ UNCHANGED <<store, policies, req, resp, cond, condResult, log, auditFails, table, user,
                   options>>

\* loadPolicies() has settled; the handler goes on to its answer or to
\* await savePolicies(policies)
LoadedWrite(c) ==
    /\ calls[c].pc = "loading"
    /\ \E readOk \in BOOLEAN :
        \E next \in {changed(calls[c].op, loadPolicies(readOk))} :
            /\ "save" \in DOMAIN next => Len(next.save) <= MaxPolicies
            /\ calls' = [calls EXCEPT ![c] =
                   IF "save" \in DOMAIN next
                   THEN [pc |-> "saving", op |-> calls[c].op, io |-> readOk,
                         save |-> next.save, reply |-> next.reply]
                   ELSE answered([calls[c] EXCEPT !.io = readOk], next.reply)]
    /\ UNCHANGED <<store, policies, req, resp, cond, condResult, log, auditFails, table, user,
                   options>>

\* savePolicies(policies) has settled: the file is written, unless writing
\* failed, and the request is answered
SavedWrite(c) ==
    /\ calls[c].pc = "saving"
    /\ \E writeOk \in BOOLEAN :
        /\ store' = IF writeOk THEN calls[c].save ELSE store
        /\ calls' = [calls EXCEPT ![c] =
               answered([calls[c] EXCEPT !.io = @ /\ writeOk], calls[c].reply)]
    /\ UNCHANGED <<policies, req, resp, cond, condResult, log, auditFails, table, user,
                   options>>

\* The requests made together have all been answered
CollectWrites ==
    /\ \A c \in CallIds : calls[c].pc \in {"idle", "done"}
    /\ \E c \in CallIds : calls[c].pc = "done"
    /\ calls' = [c \in CallIds |-> NoCall]
    /\ UNCHANGED <<store, policies, req, resp, cond, condResult, log, auditFails, table, user,
                   options>>

NextWrites ==
    \/ \E c \in CallIds : BeginWrite(c) \/ LoadedWrite(c) \/ SavedWrite(c)
    \/ CollectWrites

SpecWrites == InitWrites /\ [][NextWrites]_vars

\* The write of the call was acknowledged, and reading and writing the file
\* succeeded in it
Acknowledged(c) ==
    /\ Done(c)
    /\ calls[c].reply.status \in {200, 201, 204}
    /\ calls[c].io
    /\ calls[c].op.kind = "update" => IdOf(calls[c].op.body) = calls[c].op.id

\* The stored list shows the write
Reflected(op) ==
    IF op.kind = "delete" THEN ~someId(store, op.id)
    ELSE \E i \in 1..Len(store) : store[i] = op.body

\* C28 (no acknowledged write is lost), as claimed: when the writes of two
\* requests made together, on different ids, are both acknowledged, the
\* store shows both; two POSTs with different new ids both answered 201
\* leave both policies in the store.
NoLostWrite ==
    \A c, d \in CallIds :
        (/\ c # d
         /\ Acknowledged(c)
         /\ Acknowledged(d)
         /\ calls[c].op.id # calls[d].op.id)
            => Reflected(calls[c].op) /\ Reflected(calls[d].op)

(***************************************************************************)
(* Properties of the /policies routes, one request at a time.              *)
(***************************************************************************)
\* The step is a request of the /policies routes of the kind, answered
RouteStep(r, kind) == r # NoRequest /\ r.t = "storage" /\ r.via = "route" /\ r.kind = kind

Status(answer, code) == answer.outcome = "reply" /\ answer.status = code

\* C29 (a 201 means persisted), as claimed: after a POST answered 201 the
\* store is the store before with the new policy appended; a POST not
\* answered 201 leaves the store unchanged; both also when reading or
\* writing the policy file fails.
CreatedMeansPersisted ==
    [][RouteStep(req', "create") =>
           IF Status(resp', 201)
           THEN store' = Append(store, req'.policy)
           ELSE store' = store]_vars

\* The handler ran and loadPolicies read the file
FileWasRead(records) == \E i \in 1..Len(records) : records[i].event = "policy.load"

FileWasSaved(records) ==
    \E i \in 1..Len(records) : records[i].event \in {"policy.save", "policy.save.error"}

\* A request answered 400 or 404 saves nothing and leaves the stored list
\* as it was
RejectedIsFrame(answer, records) ==
    (Status(answer, 400) \/ Status(answer, 404)) =>
        (store' = store /\ ~FileWasSaved(records))

\* A stored policy has the id
InStore(id) == \E i \in 1..Len(store) : IdOf(store[i]) = id

\* The answer to a request the handler must reject
RejectedWith(r, answer) ==
    /\ (r.kind = "create" /\ InStore(r.id)) => Status(answer, 400)
    /\ (r.kind \in {"update", "delete", "get"} /\ ~InStore(r.id)) => Status(answer, 404)

====
